---- MODULE Spec2Model ----
(***************************************************************************)
(* Billing subscription lifecycle (StripeService over CustomerStore) and   *)
(* the tenant-scoped encrypted secret store (SecretsService over           *)
(* SecretsStore) of the FastAPI backend.                                   *)
(*                                                                         *)
(* Every request is one process.  A process takes one step per call that   *)
(* leaves the process (a document-store call or a billing-provider call);  *)
(* the local computation between two such calls belongs to the step of     *)
(* the call before it.  Requests of different workers interleave between   *)
(* steps.                                                                  *)
(***************************************************************************)
EXTENDS Integers, Sequences, FiniteSets, TLC

\* ------------------------------------------------------------------ bounds
\* Provider customers that may be created in one run.
MaxCustomers == 2
\* Provider subscriptions that may be created in one run.
MaxSubs == 3

\* ------------------------------------------------------- program constants
FREE_TRIAL_DURATION_DAYS == 1
\* limit=10 of both stripe.Subscription.list calls.
SUBSCRIPTION_LIST_LIMIT == 10

\* --------------------------------------------------------------- universes
None == "None"
Procs == {1, 2}
Tenants == {"tA", "tB"}
Emails == {"e1", "e2"}

\* MySession as the services read it: tenant_id, tenant_name, email, each
\* Optional.
Sessions ==
    { [tenant_id |-> "tA", tenant_name |-> "A", email |-> "e1"],
      [tenant_id |-> "tB", tenant_name |-> "B", email |-> "e2"],
      [tenant_id |-> "tA", tenant_name |-> "A", email |-> None],
      [tenant_id |-> "tA", tenant_name |-> None, email |-> "e1"],
      [tenant_id |-> None, tenant_name |-> "A", email |-> "e1"] }

NoSession == [tenant_id |-> None, tenant_name |-> None, email |-> None]

\* The billing_email argument of ensure_customer: absent, empty, or an email.
BillingEmailArgs == {None, ""} \cup Emails

\* The price catalogues the provider may hold (stripe.Price.list, expanded):
\* each price has its id, whether its product is an active expanded object,
\* and its unit_amount.
Catalogs ==
    { << [id |-> "price_free", product_active |-> TRUE, unit_amount |-> 0] >>,
      << [id |-> "price_free", product_active |-> TRUE, unit_amount |-> 0],
         [id |-> "price_pro", product_active |-> TRUE, unit_amount |-> 1000] >> }

\* Secret names and the SecretConfig bodies a client may submit.
Names == {"n1", "n2"}

SecretConfigs ==
    { [name |-> "n1", displayName |-> "d1", environmentId |-> "env1", token |-> "tok1"],
      [name |-> "n1", displayName |-> "d2", environmentId |-> "env2", token |-> "tok2"],
      [name |-> "n2", displayName |-> "d1", environmentId |-> "env2", token |-> "tok1"] }

NoConfig == [name |-> "", displayName |-> "", environmentId |-> "", token |-> ""]

\* The sessions of the secrets endpoints: two tenants, and a session that
\* carries no tenant id.
SecretSessions ==
    { s \in Sessions : s.tenant_name # None /\ s.email # None }

\* The scopes a document-store call can carry: a tenant id, or none.
Scopes == Tenants \cup {None}

VARIABLES
    customers_coll,    \* the global "customers" collection: document key -> document
    stripe_customers,  \* provider customers, by id 1..Len
    stripe_subs,       \* provider subscriptions, by id 1..Len
    stripe_prices,     \* the provider's price catalogue
    trial_duration,    \* the configured FREE_TRIAL_DURATION_DAYS: {} when None, else {days}
    proc,              \* each request: position, session, locals, call log, result
    secrets_coll,      \* the "secrets" collection: scope -> (document key -> document)
    db_available,      \* is_database_available()
    enc_available,     \* get_encryption_service().is_available()
    last_saved,        \* per session tenant and name: the SecretConfig last saved and not deleted since
    ec_returned,       \* per tenant: the customer ids ensure_customer has returned
    add_failed         \* tenants for which a customer_store.add has failed

vars == << customers_coll, stripe_customers, stripe_subs, stripe_prices, trial_duration, proc,
           secrets_coll, db_available, enc_available, last_saved,
           ec_returned, add_failed >>

\* ------------------------------------------------------------ small helpers
Min(a, b) == IF a < b THEN a ELSE b

Take(s, n) == SubSeq(s, 1, Min(n, Len(s)))

RECURSIVE SeqFilterStatus(_, _)
\* The elements of a list of subscription objects whose status is / is not
\* "trialing", in order.
SeqFilterStatus(s, trialing) ==
    IF s = << >> THEN << >>
    ELSE LET rest == SeqFilterStatus(Tail(s), trialing)
         IN  IF (Head(s).status = "trialing") = trialing
             THEN << Head(s) >> \o rest
             ELSE rest

\* ------------------------------------------------- document store (Firestore)
\* A collection is a function from the keys of its documents to the documents.
\* Keys are ("auto", n) for the ids the store generates and ("cus", n) for the
\* provider customer id "cus_n" used as a document id.
AutoKeys == { << "auto", n >> : n \in 1..MaxCustomers }

DocKeyOfCustomer(customer_id) == << "cus", customer_id >>

KeyRank(k) == IF k[1] = "auto" THEN k[2] ELSE MaxCustomers + k[2]

RECURSIVE SortKeys(_)
SortKeys(S) ==
    IF S = {} THEN << >>
    ELSE LET m == CHOOSE k \in S : \A j \in S : KeyRank(k) <= KeyRank(j)
         IN  << m >> \o SortKeys(S \ {m})

\* query_documents(where_field == where_value): the matching documents in
\* document-key order.
query_documents(coll, where_field, where_value) ==
    LET ks == SortKeys({ k \in DOMAIN coll : coll[k][where_field] = where_value })
    IN  [ i \in 1..Len(ks) |-> coll[ks[i]] ]

\* add_document: the store chooses the key of the new document.
add_document_keys(coll) == AutoKeys \ DOMAIN coll

add_document(coll, key, data) == coll @@ (key :> data)

\* update_document: a partial update of an existing document; there must be
\* a document under doc_id.
update_document_found(coll, doc_id) == doc_id \in DOMAIN coll

update_document(coll, doc_id, data) ==
    [ coll EXCEPT ![doc_id] = [ f \in DOMAIN @ |-> IF f \in DOMAIN data THEN data[f] ELSE @[f] ] ]

\* ------------------------------------------------------- BaseStore[Customer]
\* Customer(...).to_db_create() / to_db_update(): id, tenant_id, email
\* (metadata is always the empty default; the timestamps are not modelled).
Customer(id, tenant_id, email) == [ id |-> id, tenant_id |-> tenant_id, email |-> email ]

\* Mutant: the document is keyed by its tenant, so a second add for the tenant
\* lands on the first one's document.
BaseStore_add_keys_ByTenant(coll, data) ==
    { << "auto", IF data.tenant_id = "tA" THEN 1 ELSE 2 >> }

\* BaseStore.add: no document id is passed on, the store generates one.
BaseStore_add_keys(coll, data) == add_document_keys(coll)

\* Mutant: the query filters on another field.
get_by_field_WrongField(coll, field, value) == query_documents(coll, "email", value)

\* Mutant: the query carries no filter.
get_by_field_NoFilter(coll, field, value) ==
    LET ks == SortKeys(DOMAIN coll)
    IN  [ i \in 1..Len(ks) |-> coll[ks[i]] ]

\* BaseStore.get_by_field on the global customers collection (tenant scope off).
get_by_field(coll, field, value) == query_documents(coll, field, value)

\* Mutant: the last mapping of the list is taken.
FirstCustomer_Last(customers) == customers[Len(customers)]

\* customers[0]: of the mappings a lookup returned, the first.
FirstCustomer(customers) == customers[1]

\* ------------------------------------------------------------- the provider
\* stripe.Subscription.list(customer=, status=, limit=10): newest first.
RECURSIVE SubsFrom(_, _, _, _)
SubsFrom(subs, i, customer, status) ==
    IF i = 0 THEN << >>
    ELSE IF subs[i].customer = customer /\ subs[i].status = status
         THEN << [id |-> i, status |-> subs[i].status, items |-> subs[i].items] >>
                 \o SubsFrom(subs, i - 1, customer, status)
         ELSE SubsFrom(subs, i - 1, customer, status)

Subscription_list(subs, customer, status) ==
    Take(SubsFrom(subs, Len(subs), customer, status), SUBSCRIPTION_LIST_LIMIT)

\* ---------------------------------------------------------- StripeService
\* email = billing_email or self.session.email
ResolveEmail(billing_email, session) ==
    IF billing_email \notin {None, ""} THEN billing_email ELSE session.email

RECURSIVE get_products(_)
\* Active prices of active products with a non-zero amount, in list order.
get_products(prices) ==
    IF prices = << >> THEN << >>
    ELSE LET price == Head(prices)
             rest == get_products(Tail(prices))
         IN  IF ~price.product_active THEN rest
             ELSE IF price.unit_amount = 0 THEN rest
             ELSE << [price_id |-> price.id, price_amount |-> price.unit_amount] >> \o rest

\* Mutant: a trial of zero days counts as a trial.
TrialEnabled_ZeroDays == \E days \in trial_duration : days >= 0

\* line 100: FREE_TRIAL_DURATION_DAYS is not None and FREE_TRIAL_DURATION_DAYS > 0
TrialEnabled == \E days \in trial_duration : days > 0

\* Mutant: with a paid subscription present, every listed subscription is
\* canceled, the paid ones included.
CleanupCancels_All(subscriptions) ==
    LET trialing_subs == SeqFilterStatus(subscriptions, TRUE)
        active_subs == SeqFilterStatus(subscriptions, FALSE)
    IN  IF active_subs # << >> /\ trialing_subs # << >> THEN subscriptions ELSE << >>

\* Mutant: without a paid subscription, all trials but the first are canceled.
CleanupCancels_ExtraTrials(subscriptions) ==
    LET trialing_subs == SeqFilterStatus(subscriptions, TRUE)
        active_subs == SeqFilterStatus(subscriptions, FALSE)
    IN  IF trialing_subs = << >> THEN << >>
        ELSE IF active_subs # << >> THEN trialing_subs ELSE Tail(trialing_subs)

\* _cleanup_duplicate_subscriptions: the subscriptions to cancel and the list
\* that remains.
CleanupCancels(subscriptions) ==
    LET trialing_subs == SeqFilterStatus(subscriptions, TRUE)
        active_subs == SeqFilterStatus(subscriptions, FALSE)
    IN  IF active_subs # << >> /\ trialing_subs # << >> THEN trialing_subs ELSE << >>

CleanupRemaining(subscriptions) ==
    LET trialing_subs == SeqFilterStatus(subscriptions, TRUE)
        active_subs == SeqFilterStatus(subscriptions, FALSE)
    IN  IF active_subs # << >> /\ trialing_subs # << >> THEN active_subs ELSE subscriptions

\* _subscription_to_model: the first line item only.
HasItems(sub) == sub.items # << >>

subscription_to_model(sub) ==
    [ id |-> sub.id, status |-> sub.status, price_id |-> sub.items[1] ]

\* ------------------------------------------------------------- the requests
NoVal == [none |-> TRUE]
NoResult == [kind |-> "none", err |-> "", val |-> NoVal]

\* What the client keeps of the answer to its previous request, when it
\* repeats the request.
NoPrevious == [called |-> FALSE, result |-> NoResult, remaining |-> 0]

\* A request that is not running.
Idle ==
    [ pc |-> "idle", op |-> "none", session |-> NoSession, caller |-> "top",
      previous |-> NoPrevious,
      billing_email |-> None, new_email |-> None,
      email |-> None, customers |-> << >>, customer_id |-> 0, pro_price_id |-> "",
      listed |-> FALSE, all_subs |-> << >>, todo |-> << >>, remaining |-> << >>,
      name |-> "", config |-> NoConfig,
      subscription_id |-> 0, new_price_id |-> "", subscription |-> << >>,
      ec_start |-> 0, again |-> FALSE, log |-> << >>, result |-> NoResult ]

Ok(val) == [kind |-> "ok", err |-> "", val |-> val]

\* The request returns val to its client.
Return(r, val) == [ r EXCEPT !.pc = "done", !.result = Ok(val) ]

\* An exception leaves the service method; no caller inside the service
\* catches it.
Raise(r, err) == [ r EXCEPT !.pc = "done", !.result = [kind |-> "error", err |-> err, val |-> NoVal] ]

\* The request has issued a call to the document store or to the provider.
Logged(r, call, arg, ok) == [ r EXCEPT !.log = Append(@, [call |-> call, arg |-> arg, ok |-> ok]) ]

ProviderCalls ==
    { "Customer.create", "Customer.modify", "Customer.retrieve", "Price.list",
      "Subscription.create", "Subscription.list", "Subscription.cancel",
      "Subscription.retrieve", "Subscription.modify",
      "InvoiceItem.create", "InvoiceItem.list",
      "checkout.Session.create", "billing_portal.Session.create" }
StoreReads == { "get_by_field" }
StoreWrites == { "add", "update" }

CallsOf(log, names) == { i \in 1..Len(log) : log[i].call \in names }

SecretVars == << secrets_coll, db_available, enc_available, last_saved >>
BillingVars == << customers_coll, stripe_customers, stripe_subs, stripe_prices, trial_duration, SecretVars >>
GhostVars == << ec_returned, add_failed >>

Init ==
    /\ customers_coll = << >>
    /\ stripe_customers = << >>
    /\ stripe_subs = << >>
    /\ stripe_prices \in Catalogs
    /\ trial_duration = {FREE_TRIAL_DURATION_DAYS}
    /\ proc = [ p \in Procs |-> Idle ]
    /\ ec_returned = [ t \in Tenants |-> {} ]
    /\ add_failed = {}
    /\ secrets_coll = [ scope \in Scopes |-> << >> ]
    /\ db_available = TRUE
    /\ enc_available = TRUE
    /\ last_saved = [ t \in Scopes |-> [ n \in Names |-> NoConfig ] ]

\* Sending the response is local to the worker: nothing else happens between
\* the end of a service method and its response.
NoneDone == \A p \in Procs : proc[p].pc # "done"

\* Request p is about to take the step at this position.
At(p, label) == NoneDone /\ proc[p].pc = label

\* ensure_customer returns customer_id to its caller.
EcReturn(p, r, customer_id) ==
    LET t == r.session.tenant_id
        r1 == [ r EXCEPT !.again = (ec_returned[t] # {}) ]
    IN  /\ proc' = [ proc EXCEPT ![p] =
                       IF r.caller = "top"
                       THEN Return(r1, [customer_id |-> customer_id])
                       ELSE IF r.caller = "update_subscription"
                       THEN [ r1 EXCEPT !.pc = "us_retrieve" ]
                       ELSE IF r.caller = "create_checkout_session"
                       THEN [ r1 EXCEPT !.pc = "cs_create", !.customer_id = customer_id ]
                       ELSE IF r.caller = "create_portal_session"
                       THEN [ r1 EXCEPT !.pc = "ps_create", !.customer_id = customer_id ]
                       ELSE [ r1 EXCEPT !.pc = "gas_refetch" ] ]
        /\ ec_returned' = [ ec_returned EXCEPT ![t] = @ \cup {customer_id} ]
        /\ UNCHANGED add_failed

\* ensure_customer raises after its validation.
EcRaise(p, r, err) ==
    /\ proc' = [ proc EXCEPT ![p] = Raise(r, err) ]
    /\ UNCHANGED GhostVars

\* Mutant: the tenant display name is not checked.
EcInvalid_NoName(email, tenant_name, tenant_id) ==
    email = None \/ tenant_id = None

\* ensure_customer, line 63: a required identity field is absent.
EcInvalid(email, tenant_name, tenant_id) ==
    email = None \/ tenant_name = None \/ tenant_id = None

\* ensure_customer, lines 59-82: validation, lookup by tenant, and the branch
\* taken on a mapping that is found.
EcBegin(p) ==
    /\ At(p, "ec_begin")
    /\ LET r == [ proc[p] EXCEPT !.ec_start = Len(proc[p].log) ]
           tenant_name == r.session.tenant_name
           tenant_id == r.session.tenant_id
           email == ResolveEmail(r.billing_email, r.session)
       IN  IF EcInvalid(email, tenant_name, tenant_id)
           THEN /\ proc' = [ proc EXCEPT ![p] =
                               Raise(r, "Email and tenant_name and tenant_id are required") ]
                /\ UNCHANGED GhostVars
           ELSE LET customers == get_by_field(customers_coll, "tenant_id", tenant_id)
                    r1 == Logged([ r EXCEPT !.email = email, !.customers = customers ],
                                 "get_by_field", 0, TRUE)
                IN  IF customers # << >>
                    THEN LET r2 == [ r1 EXCEPT !.customer_id = FirstCustomer(customers).id ]
                         IN  IF r.billing_email # None /\ FirstCustomer(customers).email # r.billing_email
                             THEN /\ proc' = [ proc EXCEPT ![p] = [ r2 EXCEPT !.pc = "ec_modify" ] ]
                                  /\ UNCHANGED GhostVars
                             ELSE EcReturn(p, r2, FirstCustomer(customers).id)
                    ELSE /\ proc' = [ proc EXCEPT ![p] = [ r1 EXCEPT !.pc = "ec_create" ] ]
                         /\ UNCHANGED GhostVars
    /\ UNCHANGED BillingVars

\* line 75: stripe.Customer.modify(customer_id, email=email)
EcModify(p) ==
    /\ At(p, "ec_modify")
    /\ LET r == proc[p]
       IN  /\ stripe_customers' = [ stripe_customers EXCEPT ![r.customer_id].email = r.email ]
           /\ proc' = [ proc EXCEPT ![p] =
                          [ Logged(r, "Customer.modify", r.customer_id, TRUE) EXCEPT !.pc = "ec_update" ] ]
    /\ UNCHANGED << customers_coll, stripe_subs, stripe_prices, trial_duration, SecretVars, GhostVars >>

\* lines 76-82: customer_store.update(customer_id, Customer(...)), then return.
EcUpdate(p) ==
    /\ At(p, "ec_update")
    /\ LET r == proc[p]
           doc_id == DocKeyOfCustomer(r.customer_id)
           data == Customer(r.customer_id, r.session.tenant_id, r.email)
       IN  IF update_document_found(customers_coll, doc_id)
           THEN /\ customers_coll' = update_document(customers_coll, doc_id, data)
                /\ EcReturn(p, Logged(r, "update", r.customer_id, TRUE), r.customer_id)
           ELSE /\ UNCHANGED customers_coll
                /\ EcRaise(p, Logged(r, "update", r.customer_id, FALSE), "document not found")
    /\ UNCHANGED << stripe_customers, stripe_subs, stripe_prices, trial_duration, SecretVars >>

\* lines 86-91: stripe.Customer.create(email, name, metadata)
EcCreate(p) ==
    /\ At(p, "ec_create")
    /\ Len(stripe_customers) < MaxCustomers
    /\ LET r == proc[p]
           id == Len(stripe_customers) + 1
       IN  /\ stripe_customers' = Append(stripe_customers,
                   [ email |-> r.email, name |-> r.session.tenant_name,
                     tenant_id |-> r.session.tenant_id ])
           /\ proc' = [ proc EXCEPT ![p] =
                          [ Logged(r, "Customer.create", id, TRUE) EXCEPT
                              !.pc = "ec_add", !.customer_id = id ] ]
    /\ UNCHANGED << customers_coll, stripe_subs, stripe_prices, trial_duration, SecretVars, GhostVars >>

\* lines 93-100 and 116-120: customer_store.add(Customer(...)); with the trial
\* disabled, return.
EcAdd(p) ==
    /\ At(p, "ec_add")
    /\ LET r == proc[p]
           data == Customer(r.customer_id, r.session.tenant_id, r.email)
       IN  \E key \in BaseStore_add_keys(customers_coll, data) :
              /\ customers_coll' = add_document(customers_coll, key, data)
              /\ LET r1 == Logged(r, "add", r.customer_id, TRUE)
                 IN  IF TrialEnabled
                     THEN /\ proc' = [ proc EXCEPT ![p] = [ r1 EXCEPT !.pc = "ec_products" ] ]
                          /\ UNCHANGED GhostVars
                     ELSE EcReturn(p, r1, r.customer_id)
    /\ UNCHANGED << stripe_customers, stripe_subs, stripe_prices, trial_duration, SecretVars >>

\* lines 101-104: get_products() (stripe.Price.list) and the first paid price.
EcProducts(p) ==
    /\ At(p, "ec_products")
    /\ LET r == Logged(proc[p], "Price.list", 0, TRUE)
           pro_products == get_products(stripe_prices)
       IN  IF pro_products = << >>
           THEN EcRaise(p, r, "No paid products available for trial subscription")
           ELSE /\ proc' = [ proc EXCEPT ![p] =
                               [ r EXCEPT !.pc = "ec_trial", !.pro_price_id = pro_products[1].price_id ] ]
                /\ UNCHANGED GhostVars
    /\ UNCHANGED BillingVars

\* lines 108-120: stripe.Subscription.create(customer, items, trial_end, ...)
\* succeeds, then return.
EcTrial(p) ==
    /\ At(p, "ec_trial")
    /\ Len(stripe_subs) < MaxSubs
    /\ LET r == proc[p]
           id == Len(stripe_subs) + 1
       IN  /\ stripe_subs' = Append(stripe_subs,
                   [ customer |-> r.customer_id, status |-> "trialing",
                     items |-> << r.pro_price_id >>, type |-> "trial",
                     missing_payment_method |-> "cancel" ])
           /\ EcReturn(p, Logged(r, "Subscription.create", id, TRUE), r.customer_id)
    /\ UNCHANGED << customers_coll, stripe_customers, stripe_prices, trial_duration, SecretVars >>

\* Mutant: when the add fails, the customer just created is removed again at
\* the provider.
EcAddFails_Compensates(p) ==
    /\ At(p, "ec_add")
    /\ proc' = [ proc EXCEPT ![p] =
                   Raise(Logged(Logged(proc[p], "add", proc[p].customer_id, FALSE),
                                "Customer.delete", proc[p].customer_id, TRUE),
                         "datastore_error") ]
    /\ stripe_customers' = SubSeq(stripe_customers, 1, Len(stripe_customers) - 1)
    /\ add_failed' = add_failed \cup {proc[p].session.tenant_id}
    /\ UNCHANGED << customers_coll, stripe_subs, stripe_prices, trial_duration, SecretVars,
                    ec_returned >>

\* line 93: customer_store.add fails (the datastore rejects the write or
\* cannot be reached); the exception leaves ensure_customer.
EcAddFails(p) ==
    /\ At(p, "ec_add")
    /\ proc' = [ proc EXCEPT ![p] =
                   Raise(Logged(proc[p], "add", proc[p].customer_id, FALSE), "datastore_error") ]
    /\ add_failed' = add_failed \cup {proc[p].session.tenant_id}
    /\ UNCHANGED << BillingVars, ec_returned >>

\* line 108: stripe.Subscription.create fails at the provider.
EcTrialFails(p) ==
    /\ At(p, "ec_trial")
    /\ EcRaise(p, Logged(proc[p], "Subscription.create", 0, FALSE), "upstream_error")
    /\ UNCHANGED BillingVars

\* get_active_subscription, lines 248-255, with at least one subscription
\* listed: the duplicate clean-up starts, or the first one is returned.
GasAfterListNonEmpty(r, all_subs) ==
         LET todo == IF Len(all_subs) > 1 THEN CleanupCancels(all_subs) ELSE << >>
             remaining == IF Len(all_subs) > 1 THEN CleanupRemaining(all_subs) ELSE all_subs
         IN  IF todo # << >>
             THEN [ r EXCEPT !.pc = "gas_cancel", !.todo = todo, !.remaining = remaining ]
             ELSE IF HasItems(remaining[1])
                  THEN Return([ r EXCEPT !.remaining = remaining ], subscription_to_model(remaining[1]))
                  ELSE Raise([ r EXCEPT !.remaining = remaining ], "Subscription has no items")

\* Mutant: the empty list is not checked before its first element is taken.
GasAfterList_NoEmptyCheck(r, all_subs) ==
    IF all_subs = << >>
    THEN Raise(r, "list index out of range")
    ELSE GasAfterListNonEmpty(r, all_subs)

\* Mutant: a customer without any subscription is given its trial.
GasAfterList_StartsTrial(r, all_subs) ==
    IF all_subs = << >>
    THEN [ r EXCEPT !.pc = "ec_products", !.caller = "gas" ]
    ELSE GasAfterListNonEmpty(r, all_subs)

\* get_active_subscription, lines 242-255, once both lists are in.
GasAfterList(r, all_subs) ==
    IF all_subs = << >> THEN Return(r, NoVal) ELSE GasAfterListNonEmpty(r, all_subs)

\* lines 253-255 after the clean-up loop.
GasAfterCleanup(r) ==
    IF HasItems(r.remaining[1])
    THEN Return(r, subscription_to_model(r.remaining[1]))
    ELSE Raise(r, "Subscription has no items")

\* lines 210-224: the lookup by tenant; without a mapping, ensure_customer()
\* is called.
GasLookup(p) ==
    /\ At(p, "gas_lookup")
    /\ LET r == proc[p]
           customers == get_by_field(customers_coll, "tenant_id", r.session.tenant_id)
           r1 == Logged([ r EXCEPT !.customers = customers ], "get_by_field", 0, TRUE)
       IN  proc' = [ proc EXCEPT ![p] =
                IF customers = << >>
                THEN [ r1 EXCEPT !.pc = "ec_begin", !.caller = "gas", !.billing_email = None ]
                ELSE [ r1 EXCEPT !.pc = "gas_list_active", !.customer_id = FirstCustomer(customers).id ] ]
    /\ UNCHANGED << BillingVars, GhostVars >>

\* lines 218-224: the second lookup, after ensure_customer returned.
GasRefetch(p) ==
    /\ At(p, "gas_refetch")
    /\ LET r == proc[p]
           customers == get_by_field(customers_coll, "tenant_id", r.session.tenant_id)
           r1 == Logged([ r EXCEPT !.customers = customers, !.caller = "top" ], "get_by_field", 0, TRUE)
       IN  proc' = [ proc EXCEPT ![p] =
                IF customers = << >>
                THEN Return(r1, NoVal)
                ELSE [ r1 EXCEPT !.pc = "gas_list_active", !.customer_id = FirstCustomer(customers).id ] ]
    /\ UNCHANGED << BillingVars, GhostVars >>

\* lines 227-232: stripe.Subscription.list(customer, status="active")
GasListActive(p) ==
    /\ At(p, "gas_list_active")
    /\ LET r == proc[p]
           active_subs == Subscription_list(stripe_subs, r.customer_id, "active")
       IN  proc' = [ proc EXCEPT ![p] =
                [ Logged(r, "Subscription.list", r.customer_id, TRUE) EXCEPT
                    !.pc = "gas_list_trialing", !.all_subs = active_subs ] ]
    /\ UNCHANGED << BillingVars, GhostVars >>

\* lines 235-255: stripe.Subscription.list(customer, status="trialing"), the
\* concatenation, and what follows it up to the first cancellation call.
GasListTrialing(p) ==
    /\ At(p, "gas_list_trialing")
    /\ LET r == proc[p]
           trialing_subs == Subscription_list(stripe_subs, r.customer_id, "trialing")
           all_subs == r.all_subs \o trialing_subs
           r1 == [ Logged(r, "Subscription.list", r.customer_id, TRUE) EXCEPT
                     !.all_subs = all_subs, !.listed = TRUE ]
       IN  proc' = [ proc EXCEPT ![p] = GasAfterList(r1, all_subs) ]
    /\ UNCHANGED << BillingVars, GhostVars >>

\* lines 274-278: stripe.Subscription.cancel(sub_id) succeeds.
GasCancel(p) ==
    /\ At(p, "gas_cancel")
    /\ LET r == proc[p]
           sub_id == Head(r.todo).id
           r1 == [ Logged(r, "Subscription.cancel", sub_id, TRUE) EXCEPT !.todo = Tail(@) ]
       IN  /\ stripe_subs[sub_id].status # "canceled"
           /\ stripe_subs' = [ stripe_subs EXCEPT ![sub_id].status = "canceled" ]
           /\ proc' = [ proc EXCEPT ![p] = IF r1.todo = << >> THEN GasAfterCleanup(r1) ELSE r1 ]
    /\ UNCHANGED << customers_coll, stripe_customers, stripe_prices, trial_duration, SecretVars, GhostVars >>

\* The provider errors a cancellation may raise: the request is refused
\* (the subscription is already canceled), or the call itself fails
\* (connection, rate limit, authentication).
CancelErrors == { "InvalidRequestError", "APIConnectionError" }

\* A call that raised: the entry names the exception.
LoggedError(r, call, arg, error) ==
    [ r EXCEPT !.log = Append(@, [call |-> call, arg |-> arg, ok |-> FALSE, error |-> error]) ]

\* Mutant: the handler catches every exception of the cancellation.
CleanupOnCancelError_CatchAll(r, error) ==
    LET r1 == [ r EXCEPT !.todo = Tail(@) ]
    IN  IF r1.todo = << >> THEN GasAfterCleanup(r1) ELSE r1

\* lines 276-280: try: cancel / except stripe.InvalidRequestError: warning,
\* and the loop goes on; any other exception leaves the method.
CleanupOnCancelError(r, error) ==
    LET r1 == [ r EXCEPT !.todo = Tail(@) ]
    IN  IF error = "InvalidRequestError"
        THEN IF r1.todo = << >> THEN GasAfterCleanup(r1) ELSE r1
        ELSE Raise(r, "upstream_error")

\* lines 279-280: the cancellation raises stripe.InvalidRequestError (the
\* subscription is already canceled); it is logged and the loop goes on.
GasCancelInvalidRequest(p) ==
    /\ At(p, "gas_cancel")
    /\ LET r == proc[p]
           sub_id == Head(r.todo).id
       IN  /\ stripe_subs[sub_id].status = "canceled"
           /\ proc' = [ proc EXCEPT ![p] =
                  CleanupOnCancelError(
                      LoggedError(r, "Subscription.cancel", sub_id, "InvalidRequestError"),
                      "InvalidRequestError") ]
    /\ UNCHANGED << BillingVars, GhostVars >>

\* line 278: the cancellation raises another provider error (connection,
\* rate limit, authentication): no handler, the exception leaves the method.
GasCancelOtherError(p) ==
    /\ At(p, "gas_cancel")
    /\ LET r == proc[p]
           sub_id == Head(r.todo).id
       IN  \E error \in CancelErrors \ {"InvalidRequestError"} :
              proc' = [ proc EXCEPT ![p] =
                  CleanupOnCancelError(
                      LoggedError(r, "Subscription.cancel", sub_id, error), error) ]
    /\ UNCHANGED << BillingVars, GhostVars >>

\* update_billing_email, lines 456-462: the lookup by tenant.
UbeLookup(p) ==
    /\ At(p, "ube_lookup")
    /\ LET r == proc[p]
           customers == get_by_field(customers_coll, "tenant_id", r.session.tenant_id)
           r1 == Logged([ r EXCEPT !.customers = customers ], "get_by_field", 0, TRUE)
       IN  proc' = [ proc EXCEPT ![p] =
                IF customers = << >>
                THEN Raise(r1, "No customer found")
                ELSE [ r1 EXCEPT !.pc = "ube_modify", !.customer_id = FirstCustomer(customers).id ] ]
    /\ UNCHANGED << BillingVars, GhostVars >>

\* line 465: stripe.Customer.modify(customer_id, email=new_email)
UbeModify(p) ==
    /\ At(p, "ube_modify")
    /\ LET r == proc[p]
       IN  /\ stripe_customers' = [ stripe_customers EXCEPT ![r.customer_id].email = r.new_email ]
           /\ proc' = [ proc EXCEPT ![p] =
                          [ Logged(r, "Customer.modify", r.customer_id, TRUE) EXCEPT !.pc = "ube_update" ] ]
    /\ UNCHANGED << customers_coll, stripe_subs, stripe_prices, trial_duration, SecretVars, GhostVars >>

\* lines 468-475: customer_store.update(customer_id, Customer(...)), then the
\* new email is returned.
UbeUpdate(p) ==
    /\ At(p, "ube_update")
    /\ LET r == proc[p]
           doc_id == DocKeyOfCustomer(r.customer_id)
           data == Customer(r.customer_id, r.session.tenant_id, r.new_email)
       IN  IF update_document_found(customers_coll, doc_id)
           THEN /\ customers_coll' = update_document(customers_coll, doc_id, data)
                /\ proc' = [ proc EXCEPT ![p] =
                               Return(Logged(r, "update", r.customer_id, TRUE),
                                      [billing_email |-> r.new_email]) ]
           ELSE /\ UNCHANGED customers_coll
                /\ proc' = [ proc EXCEPT ![p] =
                               Raise(Logged(r, "update", r.customer_id, FALSE), "document not found") ]
    /\ UNCHANGED << stripe_customers, stripe_subs, stripe_prices, trial_duration, SecretVars, GhostVars >>

\* -------------------------------------------------------- get_billing_info
\* Mutant: a payment method is reported for a tenant that has no customer.
BillingInfoWithoutCustomer_HasPayment(session) ==
    [ billing_email |-> session.email, has_payment_method |-> TRUE ]

\* lines 436-439: the answer without a mapping.
BillingInfoWithoutCustomer(session) ==
    [ billing_email |-> session.email, has_payment_method |-> FALSE ]

\* lines 432-439: lookup by tenant; without a mapping the session's email is
\* reported.
GbiLookup(p) ==
    /\ At(p, "gbi_lookup")
    /\ LET r == proc[p]
           customers == get_by_field(customers_coll, "tenant_id", r.session.tenant_id)
           r1 == Logged([ r EXCEPT !.customers = customers ], "get_by_field", 0, TRUE)
       IN  proc' = [ proc EXCEPT ![p] =
                IF customers = << >>
                THEN Return(r1, BillingInfoWithoutCustomer(r.session))
                ELSE [ r1 EXCEPT !.pc = "gbi_retrieve", !.customer_id = FirstCustomer(customers).id ] ]
    /\ UNCHANGED << BillingVars, GhostVars >>

\* lines 441-450: stripe.Customer.retrieve; the default payment method is the
\* provider's, set in its portal.
GbiRetrieve(p) ==
    /\ At(p, "gbi_retrieve")
    /\ LET r == Logged(proc[p], "Customer.retrieve", proc[p].customer_id, TRUE)
       IN  \E has_payment \in BOOLEAN :
              proc' = [ proc EXCEPT ![p] =
                  Return(r, [billing_email |-> stripe_customers[r.customer_id].email,
                             has_payment_method |-> has_payment]) ]
    /\ UNCHANGED << BillingVars, GhostVars >>

\* ------------------------------------------- add_usage / get_pending_usage
UsageAmounts == { 1000 }

\* What stripe.InvoiceItem.list may answer: the pending items are the
\* provider's.
PendingItemLists == { << >>, << [amount |-> 1000] >> }

\* Mutant: get_pending_usage refuses a tenant without a mapping, as add_usage
\* does.
PendingUsageWithoutCustomer_Raises(r) ==
    Raise(r, "No customer found. Please set up billing first.")

\* get_pending_usage, lines 526-528: the answer without a mapping.
PendingUsageWithoutCustomer(r) == Return(r, [items |-> << >>])

\* add_usage, lines 493-499
AuLookup(p) ==
    /\ At(p, "au_lookup")
    /\ LET r == proc[p]
           customers == get_by_field(customers_coll, "tenant_id", r.session.tenant_id)
           r1 == Logged([ r EXCEPT !.customers = customers ], "get_by_field", 0, TRUE)
       IN  proc' = [ proc EXCEPT ![p] =
                IF customers = << >>
                THEN Raise(r1, "No customer found. Please set up billing first.")
                ELSE [ r1 EXCEPT !.pc = "au_create", !.customer_id = FirstCustomer(customers).id ] ]
    /\ UNCHANGED << BillingVars, GhostVars >>

\* add_usage, lines 502-516: stripe.InvoiceItem.create
AuCreate(p) ==
    /\ At(p, "au_create")
    /\ LET r == Logged(proc[p], "InvoiceItem.create", proc[p].customer_id, TRUE)
       IN  \E amount \in UsageAmounts :
              proc' = [ proc EXCEPT ![p] = Return(r, [amount |-> amount]) ]
    /\ UNCHANGED << BillingVars, GhostVars >>

\* get_pending_usage, lines 523-530: without a mapping, a warning and the
\* empty list.
GpuLookup(p) ==
    /\ At(p, "gpu_lookup")
    /\ LET r == proc[p]
           customers == get_by_field(customers_coll, "tenant_id", r.session.tenant_id)
           r1 == Logged([ r EXCEPT !.customers = customers ], "get_by_field", 0, TRUE)
       IN  proc' = [ proc EXCEPT ![p] =
                IF customers = << >>
                THEN PendingUsageWithoutCustomer(r1)
                ELSE [ r1 EXCEPT !.pc = "gpu_list", !.customer_id = FirstCustomer(customers).id ] ]
    /\ UNCHANGED << BillingVars, GhostVars >>

\* get_pending_usage, lines 533-550: stripe.InvoiceItem.list(pending=True)
GpuList(p) ==
    /\ At(p, "gpu_list")
    /\ LET r == Logged(proc[p], "InvoiceItem.list", proc[p].customer_id, TRUE)
       IN  \E items \in PendingItemLists :
              proc' = [ proc EXCEPT ![p] = Return(r, [items |-> items]) ]
    /\ UNCHANGED << BillingVars, GhostVars >>

\* ------------------------------------------------------ update_subscription
\* Mutant: the modification carries the new price for every line item.
UsModifiedItems_All(items, item_id, new_price_id) ==
    [ i \in 1..Len(items) |-> new_price_id ]

\* stripe.Subscription.modify(items=[{"id": item_id, "price": new_price_id}]):
\* the line item named by its id takes the new price, the others stay.
UsModifiedItems(items, item_id, new_price_id) ==
    [ items EXCEPT ![item_id] = new_price_id ]

\* The prices the provider knows.
PriceIdsOf(prices) == { prices[i].id : i \in 1..Len(prices) }

\* The entry of stripe.Subscription.modify in the request's calls, with the
\* arguments it was given.
LoggedModify(r, ok) ==
    [ r EXCEPT !.log = Append(@,
        [ call |-> "Subscription.modify", arg |-> r.subscription_id, ok |-> ok,
          item_id |-> 1, price |-> r.new_price_id,
          proration_behavior |-> "create_prorations" ]) ]

\* lines 383-389: stripe.Subscription.retrieve(subscription_id); a subscription
\* the provider does not know is an error of the provider; one without line
\* items is a ValueError.
UsRetrieve(p) ==
    /\ At(p, "us_retrieve")
    /\ LET r == proc[p]
           id == r.subscription_id
       IN  proc' = [ proc EXCEPT ![p] =
              IF id \notin 1..Len(stripe_subs)
              THEN Raise(Logged(r, "Subscription.retrieve", id, FALSE), "upstream_error")
              ELSE LET subscription == [ id |-> id, status |-> stripe_subs[id].status,
                                         items |-> stripe_subs[id].items ]
                       r1 == [ Logged(r, "Subscription.retrieve", id, TRUE) EXCEPT
                                 !.subscription = << subscription >> ]
                   IN  IF subscription.items = << >>
                       THEN Raise(r1, "Subscription has no items")
                       ELSE [ r1 EXCEPT !.pc = "us_modify" ] ]
    /\ UNCHANGED << BillingVars, GhostVars >>

\* lines 392-401: stripe.Subscription.modify on the first line item, with
\* proration_behavior="create_prorations"; the updated subscription is returned.
UsModify(p) ==
    /\ At(p, "us_modify")
    /\ proc[p].new_price_id \in PriceIdsOf(stripe_prices)
    /\ LET r == proc[p]
           id == r.subscription_id
           items == UsModifiedItems(stripe_subs[id].items, 1, r.new_price_id)
           updated_sub == [ id |-> id, status |-> stripe_subs[id].status, items |-> items ]
       IN  /\ stripe_subs' = [ stripe_subs EXCEPT ![id].items = items ]
           /\ proc' = [ proc EXCEPT ![p] =
                          Return(LoggedModify(r, TRUE), subscription_to_model(updated_sub)) ]
    /\ UNCHANGED << customers_coll, stripe_customers, stripe_prices, trial_duration, SecretVars, GhostVars >>

\* line 392: the provider rejects the modification (it has no such price).
UsModifyFails(p) ==
    /\ At(p, "us_modify")
    /\ proc[p].new_price_id \notin PriceIdsOf(stripe_prices)
    /\ proc' = [ proc EXCEPT ![p] = Raise(LoggedModify(proc[p], FALSE), "upstream_error") ]
    /\ UNCHANGED << BillingVars, GhostVars >>

\* ------------------------------------- checkout and customer-portal sessions
\* Mutant: the session is created for the provider's first customer.
SessionCustomer_First(customer_id) == 1

\* lines 133 and 415: customer=customer_id, the value ensure_customer returned.
SessionCustomer(customer_id) == customer_id

\* The entry of a session-creation call in the request's calls, with the
\* customer and the metadata it was given.
LoggedSession(r, call, metadata) ==
    [ r EXCEPT !.log = Append(@,
        [ call |-> call, arg |-> SessionCustomer(r.customer_id), ok |-> TRUE,
          metadata |-> metadata ]) ]

\* create_checkout_session, lines 129-153: stripe.checkout.Session.create for
\* the customer, with the tenant identity as metadata; a session without a
\* url is a ValueError.
CsCreate(p) ==
    /\ At(p, "cs_create")
    /\ LET r == LoggedSession(proc[p], "checkout.Session.create",
                              << proc[p].session.tenant_id, proc[p].session.tenant_name >>)
       IN  \E has_url \in BOOLEAN :
              proc' = [ proc EXCEPT ![p] =
                 IF has_url
                 THEN Return(r, [url |-> "checkout_url"])
                 ELSE Raise(r, "Failed to create checkout session URL") ]
    /\ UNCHANGED << BillingVars, GhostVars >>

\* create_portal_session, lines 414-422: stripe.billing_portal.Session.create
\* for the customer; a session without a url is a ValueError.
PsCreate(p) ==
    /\ At(p, "ps_create")
    /\ LET r == LoggedSession(proc[p], "billing_portal.Session.create", << >>)
       IN  \E has_url \in BOOLEAN :
              proc' = [ proc EXCEPT ![p] =
                 IF has_url
                 THEN Return(r, [url |-> "portal_url"])
                 ELSE Raise(r, "Failed to create portal session URL") ]
    /\ UNCHANGED << BillingVars, GhostVars >>

\* ------------------------------------------------------------ request entry
\* A request arrives with its session: billing endpoints.
StartEnsureCustomer(p, sessions, overrides) ==
    /\ At(p, "idle")
    /\ \E session \in sessions, billing_email \in overrides :
          proc' = [ proc EXCEPT ![p] =
              [ Idle EXCEPT !.pc = "ec_begin", !.op = "ensure_customer", !.session = session,
                            !.billing_email = billing_email ] ]
    /\ UNCHANGED << BillingVars, GhostVars >>

StartGetActiveSubscription(p, sessions) ==
    /\ At(p, "idle")
    /\ \E session \in sessions :
          proc' = [ proc EXCEPT ![p] =
              [ Idle EXCEPT !.pc = "gas_lookup", !.op = "get_active_subscription",
                            !.session = session ] ]
    /\ UNCHANGED << BillingVars, GhostVars >>

StartUpdateBillingEmail(p, sessions) ==
    /\ At(p, "idle")
    /\ \E session \in sessions, new_email \in Emails :
          proc' = [ proc EXCEPT ![p] =
              [ Idle EXCEPT !.pc = "ube_lookup", !.op = "update_billing_email",
                            !.session = session, !.new_email = new_email ] ]
    /\ UNCHANGED << BillingVars, GhostVars >>

\* The read-only and usage endpoints: get_billing_info, add_usage,
\* get_pending_usage.
StartProbe(p, sessions) ==
    /\ At(p, "idle")
    /\ \E session \in sessions,
          start \in { <<"gbi_lookup", "get_billing_info">>, <<"au_lookup", "add_usage">>,
                      <<"gpu_lookup", "get_pending_usage">> } :
          proc' = [ proc EXCEPT ![p] =
              [ Idle EXCEPT !.pc = start[1], !.op = start[2], !.session = session ] ]
    /\ UNCHANGED << BillingVars, GhostVars >>

\* The price ids a client may ask for.
PriceArgs == {"price_pro", "price_max"}

\* update_subscription(subscription_id, new_price_id, billing_email), lines
\* 379-380: with a billing_email, ensure_customer(billing_email) runs first.
StartUpdateSubscription(p, sessions) ==
    /\ At(p, "idle")
    /\ \E session \in sessions, subscription_id \in 1..MaxSubs,
          new_price_id \in PriceArgs, billing_email \in BillingEmailArgs :
          LET r == [ Idle EXCEPT !.op = "update_subscription", !.session = session,
                                 !.caller = "update_subscription",
                                 !.subscription_id = subscription_id,
                                 !.new_price_id = new_price_id,
                                 !.billing_email = billing_email ]
          IN  proc' = [ proc EXCEPT ![p] =
                 IF billing_email \notin {None, ""}
                 THEN [ r EXCEPT !.pc = "ec_begin" ]
                 ELSE [ r EXCEPT !.pc = "us_retrieve" ] ]
    /\ UNCHANGED << BillingVars, GhostVars >>

\* create_checkout_session(price_id, billing_email), line 127, and
\* create_portal_session(), line 412: ensure_customer runs first.
StartCheckoutSession(p, sessions, overrides) ==
    /\ At(p, "idle")
    /\ \E session \in sessions, price_id \in PriceArgs, billing_email \in overrides :
          proc' = [ proc EXCEPT ![p] =
              [ Idle EXCEPT !.pc = "ec_begin", !.op = "create_checkout_session",
                            !.caller = "create_checkout_session", !.session = session,
                            !.new_price_id = price_id, !.billing_email = billing_email ] ]
    /\ UNCHANGED << BillingVars, GhostVars >>

StartPortalSession(p, sessions) ==
    /\ At(p, "idle")
    /\ \E session \in sessions :
          proc' = [ proc EXCEPT ![p] =
              [ Idle EXCEPT !.pc = "ec_begin", !.op = "create_portal_session",
                            !.caller = "create_portal_session", !.session = session ] ]
    /\ UNCHANGED << BillingVars, GhostVars >>

\* The client that got a subscription from GET /subscription asks again with
\* the same session, nothing else happening in between.
GasAgain(p) ==
    /\ proc[p].pc = "done"
    /\ proc[p].op = "get_active_subscription"
    /\ proc[p].result.kind = "ok"
    /\ ~proc[p].previous.called
    /\ \A i \in 1..Len(proc[p].log) :
          proc[p].log[i].call = "Subscription.cancel" => proc[p].log[i].ok
    /\ proc' = [ proc EXCEPT ![p] =
          [ Idle EXCEPT !.pc = "gas_lookup", !.op = "get_active_subscription",
                        !.session = proc[p].session,
                        !.previous = [ called |-> TRUE, result |-> proc[p].result,
                                       remaining |-> Len(proc[p].remaining) ] ] ]
    /\ UNCHANGED << BillingVars, GhostVars >>

\* The response has been sent; the worker is free again.
Finish(p) ==
    /\ proc[p].pc = "done"
    /\ proc' = [ proc EXCEPT ![p] = Idle ]
    /\ UNCHANGED << BillingVars, GhostVars >>

\* ------------------------------------------------ the provider's own events
ItemChoices == { << "price_pro" >> }

\* A subscription appears at the provider outside this service: a completed
\* checkout (active) or a trial started from the provider's dashboard.
ProviderSubscriptionCreated ==
    /\ NoneDone
    /\ Len(stripe_subs) < MaxSubs
    /\ \E customer \in 1..Len(stripe_customers), status \in {"active", "trialing"},
          items \in ItemChoices :
          stripe_subs' = Append(stripe_subs,
              [ customer |-> customer, status |-> status, items |-> items, type |-> "paid",
                missing_payment_method |-> "create_invoice" ])
    /\ UNCHANGED << customers_coll, stripe_customers, stripe_prices, trial_duration, SecretVars, proc, GhostVars >>

\* A subscription ends at the provider: the trial ran out without a payment
\* method, or it was canceled in the portal.
ProviderSubscriptionEnded ==
    /\ NoneDone
    /\ \E id \in 1..Len(stripe_subs) :
          /\ stripe_subs[id].status \in {"active", "trialing"}
          /\ stripe_subs' = [ stripe_subs EXCEPT ![id].status = "canceled" ]
    /\ UNCHANGED << customers_coll, stripe_customers, stripe_prices, trial_duration, SecretVars, proc, GhostVars >>

\* ===================================================== the secret store
\* Mutant: the store never takes the tenant of the session.
StoreTenantId_Unscoped(session, use_tenant_scope) == None

\* BaseStore.__init__: the scope every call of the store carries.
StoreTenantId(session, use_tenant_scope) ==
    IF use_tenant_scope THEN session.tenant_id ELSE None

\* Mutant: the secret store of every session works in the scope of tenant tA.
SecretsStoreTenantId_Shared(session) == "tA"

\* SecretsStore.__init__: the secrets collection with the tenant scope on.
SecretsStoreTenantId(session) == StoreTenantId(session, TRUE)

\* encrypt_secret / decrypt_secret of the encryption service: each plaintext
\* has its ciphertext, which is no plaintext; only a ciphertext decrypts.
Tokens == { c.token : c \in SecretConfigs }

CipherTable == ("tok1" :> "ct_7f3a") @@ ("tok2" :> "ct_b91c")

encrypt_secret(token) == CipherTable[token]

CanDecrypt(ciphertext) == \E t \in DOMAIN CipherTable : CipherTable[t] = ciphertext

decrypt_secret(ciphertext) == CHOOSE t \in DOMAIN CipherTable : CipherTable[t] = ciphertext

\* set_document / get_document / doc_exists / delete_document / the
\* unfiltered query_documents, inside one scope of a collection.
set_document(coll, scope, doc_id, data) ==
    [ coll EXCEPT ![scope] =
        [ k \in (DOMAIN @) \cup {doc_id} |-> IF k = doc_id THEN data ELSE @[k] ] ]

doc_exists(coll, scope, doc_id) == doc_id \in DOMAIN coll[scope]

delete_document(coll, scope, doc_id) ==
    [ coll EXCEPT ![scope] = [ k \in (DOMAIN @) \ {doc_id} |-> @[k] ] ]

RECURSIVE SortNames(_)
SortNames(S) ==
    IF S = {} THEN << >>
    ELSE LET m == IF "n1" \in S THEN "n1" ELSE CHOOSE k \in S : TRUE
         IN  << m >> \o SortNames(S \ {m})

query_all_documents(coll, scope) ==
    LET ks == SortNames(DOMAIN coll[scope])
    IN  [ i \in 1..Len(ks) |-> coll[scope][ks[i]] ]

\* Mutant: two fields are stored under each other's name.
SecretOf_Swapped(config) ==
    [ name |-> config.name, displayName |-> config.environmentId,
      environmentId |-> config.displayName,
      encryptedToken |-> encrypt_secret(config.token) ]

\* Mutant: the token is stored as it was submitted.
SecretOf_Plaintext(config) ==
    [ name |-> config.name, displayName |-> config.displayName,
      environmentId |-> config.environmentId,
      encryptedToken |-> config.token ]

\* SecretsStore.save_secret, lines 46-51: the stored form of a SecretConfig.
SecretOf(config) ==
    [ name |-> config.name, displayName |-> config.displayName,
      environmentId |-> config.environmentId,
      encryptedToken |-> encrypt_secret(config.token) ]

\* Mutant: the document is stored under the display name of the secret.
SaveDocId_DisplayName(config) == config.displayName

\* SecretsStore.save_secret, line 54: the secret name is the document id.
SaveDocId(config) == config.name

\* No stored Secret.
NoSecret == [name |-> "", displayName |-> "", environmentId |-> "", encryptedToken |-> ""]

\* The document under doc_id in a scope before a write, NoSecret without one.
DocBefore(coll, scope, doc_id) ==
    IF doc_exists(coll, scope, doc_id) THEN coll[scope][doc_id] ELSE NoSecret

\* SecretsStore._decrypt_secret, lines 85-91: the response for a stored Secret.
SecretResponse(secret) ==
    [ name |-> secret.name, displayName |-> secret.displayName,
      environmentId |-> secret.environmentId,
      token |-> decrypt_secret(secret.encryptedToken) ]

\* SecretsStore._decrypt_secret: decryption raises for this stored Secret.
DecryptFails(secret, enc) == ~enc \/ ~CanDecrypt(secret.encryptedToken)

\* The log entries of the secret store: document-store calls with their scope,
\* and the uses of the encryption service.
StoreCall(r, call, scope) == [ r EXCEPT !.log = Append(@, [call |-> call, scope |-> scope]) ]

\* A write of the document store, with the document it found under the id.
StoreWrite(r, call, scope, doc_id, before) ==
    [ r EXCEPT !.log = Append(@, [call |-> call, scope |-> scope, doc_id |-> doc_id,
                                   before |-> before]) ]

CryptoCall(r, call) == [ r EXCEPT !.log = Append(@, [call |-> call]) ]

RECURSIVE DecryptAll(_, _)
\* The log after decrypting the secrets in order, stopping at the first one
\* that fails.
DecryptAll(r, secrets) ==
    IF secrets = << >> THEN r
    ELSE DecryptAll(CryptoCall(r, "decrypt_secret"), Tail(secrets))

MapSecretResponse(secrets) == [ i \in 1..Len(secrets) |-> SecretResponse(secrets[i]) ]

AnyDecryptFails(secrets, enc) == \E i \in 1..Len(secrets) : DecryptFails(secrets[i], enc)

\* Mutant: the encryption check lets every request through.
check_encryption_available_Never(enc) == ""

\* Mutant: the datastore check lets every request through.
check_database_available_Never(db) == ""

\* SecretsService._check_database_available / _check_encryption_available:
\* the error the check answers with, "" when it lets the request through.
check_database_available(db) == IF ~db THEN "datastore_unavailable" ELSE ""

check_encryption_available(enc) == IF ~enc THEN "encryption_unavailable" ELSE ""

\* A JSONResponse that carries an error.
ErrorResponse(r, err) == [ r EXCEPT !.pc = "done", !.result = [kind |-> "error", err |-> err, val |-> NoVal] ]

\* A request of the secrets endpoints starts.
SecretRequest(op, session) ==
    [ Idle EXCEPT !.op = op, !.session = session ]

\* SecretsService.get_secrets
SvcGetSecrets(p) ==
    /\ At(p, "idle")
    /\ \E session \in SecretSessions :
          LET r == SecretRequest("get_secrets", session)
              scope == SecretsStoreTenantId(session)
              secrets == query_all_documents(secrets_coll, scope)
              r1 == StoreCall(r, "query_documents", scope)
          IN  proc' = [ proc EXCEPT ![p] =
                  IF check_database_available(db_available) # ""
                  THEN ErrorResponse(r, check_database_available(db_available))
                  ELSE IF check_encryption_available(enc_available) # ""
                  THEN ErrorResponse(r, check_encryption_available(enc_available))
                  ELSE IF AnyDecryptFails(secrets, enc_available)
                  THEN ErrorResponse(CryptoCall(r1, "decrypt_secret"), "internal_error")
                  ELSE Return(DecryptAll(r1, secrets), [secrets |-> MapSecretResponse(secrets)]) ]
    /\ UNCHANGED << customers_coll, stripe_customers, stripe_subs, stripe_prices, trial_duration,
                    SecretVars, GhostVars >>

\* SecretsService.get_secrets, lines 64-72: the document store raises on the
\* query (the datastore is provisioned but the read fails); the exception is
\* caught by the method's except clause.
SvcGetSecretsStoreFails(p) ==
    /\ At(p, "idle")
    /\ check_database_available(db_available) = ""
    /\ check_encryption_available(enc_available) = ""
    /\ \E session \in SecretSessions :
          LET r == SecretRequest("get_secrets", session)
          IN  proc' = [ proc EXCEPT ![p] =
                  ErrorResponse(StoreCall(r, "query_documents", SecretsStoreTenantId(session)),
                                "internal_error") ]
    /\ UNCHANGED << customers_coll, stripe_customers, stripe_subs, stripe_prices, trial_duration,
                    SecretVars, GhostVars >>

\* SecretsService.upsert_secret, with SecretsStore.save_secret
SvcUpsertSecret(p) ==
    /\ At(p, "idle")
    /\ \E session \in SecretSessions, config \in SecretConfigs :
          LET r == [ SecretRequest("upsert_secret", session) EXCEPT !.config = config ]
              scope == SecretsStoreTenantId(session)
              r1 == StoreWrite(CryptoCall(r, "encrypt_secret"), "set_document", scope,
                               SaveDocId(config),
                               DocBefore(secrets_coll, scope, SaveDocId(config)))
          IN  IF check_database_available(db_available) # ""
              THEN /\ proc' = [ proc EXCEPT ![p] =
                                  ErrorResponse(r, check_database_available(db_available)) ]
                   /\ UNCHANGED << secrets_coll, last_saved >>
              ELSE IF check_encryption_available(enc_available) # ""
              THEN /\ proc' = [ proc EXCEPT ![p] =
                                  ErrorResponse(r, check_encryption_available(enc_available)) ]
                   /\ UNCHANGED << secrets_coll, last_saved >>
              ELSE IF ~enc_available
              THEN /\ proc' = [ proc EXCEPT ![p] =
                                  ErrorResponse(CryptoCall(r, "encrypt_secret"), "encryption_error") ]
                   /\ UNCHANGED << secrets_coll, last_saved >>
              ELSE /\ secrets_coll' = set_document(secrets_coll, scope, SaveDocId(config), SecretOf(config))
                   /\ last_saved' = [ last_saved EXCEPT ![session.tenant_id][config.name] = config ]
                   /\ proc' = [ proc EXCEPT ![p] = Return(r1, [message |-> "Secret saved successfully"]) ]
    /\ UNCHANGED << customers_coll, stripe_customers, stripe_subs, stripe_prices, trial_duration,
                    db_available, enc_available, GhostVars >>

\* SecretsService.upsert_secret, lines 84-91: encrypt_secret raises inside
\* save_secret (line 50), before self.set is reached; the service answers
\* encryption_error.
SvcUpsertSecretEncryptFails(p) ==
    /\ At(p, "idle")
    /\ check_database_available(db_available) = ""
    /\ check_encryption_available(enc_available) = ""
    /\ \E session \in SecretSessions, config \in SecretConfigs :
          LET r == [ SecretRequest("upsert_secret", session) EXCEPT !.config = config ]
          IN  proc' = [ proc EXCEPT ![p] =
                  ErrorResponse(CryptoCall(r, "encrypt_secret"), "encryption_error") ]
    /\ UNCHANGED << customers_coll, stripe_customers, stripe_subs, stripe_prices, trial_duration,
                    SecretVars, GhostVars >>

\* SecretsService.check_secret_exists
SvcCheckSecretExists(p) ==
    /\ At(p, "idle")
    /\ \E session \in SecretSessions, name \in Names :
          LET r == [ SecretRequest("check_secret_exists", session) EXCEPT !.name = name ]
              scope == SecretsStoreTenantId(session)
          IN  proc' = [ proc EXCEPT ![p] =
                  IF check_database_available(db_available) # ""
                  THEN ErrorResponse(r, check_database_available(db_available))
                  ELSE Return(StoreCall(r, "doc_exists", scope),
                              [exists |-> doc_exists(secrets_coll, scope, name)]) ]
    /\ UNCHANGED << customers_coll, stripe_customers, stripe_subs, stripe_prices, trial_duration,
                    SecretVars, GhostVars >>

\* SecretsService.delete_secret, lines 124-135: the availability check and
\* the existence check.
SvcDeleteSecret(p) ==
    /\ At(p, "idle")
    /\ \E session \in SecretSessions, name \in Names :
          LET r == [ SecretRequest("delete_secret", session) EXCEPT !.name = name ]
              scope == SecretsStoreTenantId(session)
              r1 == StoreCall(r, "doc_exists", scope)
          IN  proc' = [ proc EXCEPT ![p] =
                  IF check_database_available(db_available) # ""
                  THEN ErrorResponse(r, check_database_available(db_available))
                  ELSE IF ~doc_exists(secrets_coll, scope, name)
                  THEN ErrorResponse(r1, "not_found")
                  ELSE [ r1 EXCEPT !.pc = "del_delete" ] ]
    /\ UNCHANGED << customers_coll, stripe_customers, stripe_subs, stripe_prices, trial_duration,
                    SecretVars, GhostVars >>

\* SecretsService.delete_secret, lines 137-143: self.store.delete(name)
SvcDeleteSecretDelete(p) ==
    /\ At(p, "del_delete")
    /\ LET r == proc[p]
           scope == SecretsStoreTenantId(r.session)
       IN  /\ secrets_coll' = delete_document(secrets_coll, scope, r.name)
           /\ last_saved' = [ last_saved EXCEPT ![r.session.tenant_id][r.name] = NoConfig ]
           /\ proc' = [ proc EXCEPT ![p] = Return(StoreCall(r, "delete_document", scope), NoVal) ]
    /\ UNCHANGED << customers_coll, stripe_customers, stripe_subs, stripe_prices, trial_duration,
                    db_available, enc_available, GhostVars >>

\* SecretsStore.get_secret(name), called on the store itself (no caller in
\* the service), with the datastore provisioned.
StoreGetSecret(p) ==
    /\ At(p, "idle")
    /\ db_available
    /\ \E session \in SecretSessions, name \in Names :
          LET r == [ SecretRequest("get_secret", session) EXCEPT !.name = name ]
              scope == SecretsStoreTenantId(session)
              r1 == StoreCall(r, "get_document", scope)
          IN  proc' = [ proc EXCEPT ![p] =
                  IF ~doc_exists(secrets_coll, scope, name)
                  THEN Return(r1, NoVal)
                  ELSE LET secret == secrets_coll[scope][name]
                       IN  IF DecryptFails(secret, enc_available)
                           THEN Raise(CryptoCall(r1, "decrypt_secret"), "Failed to decrypt secret")
                           ELSE Return(CryptoCall(r1, "decrypt_secret"), SecretResponse(secret)) ]
    /\ UNCHANGED << customers_coll, stripe_customers, stripe_subs, stripe_prices, trial_duration,
                    SecretVars, GhostVars >>

SecretStep(p) ==
    \/ SvcGetSecrets(p) \/ SvcUpsertSecret(p) \/ SvcCheckSecretExists(p)
    \/ SvcDeleteSecret(p) \/ SvcDeleteSecretDelete(p) \/ StoreGetSecret(p)

\* ensure_customer where every call to the store and to the provider answers,
\* without the email update of a mapping that is found.
EcBootstrapStep(p) ==
    \/ EcBegin(p) \/ EcCreate(p) \/ EcAdd(p) \/ EcProducts(p) \/ EcTrial(p)

\* The email update of a mapping that is found.
EcEmailStep(p) == EcModify(p) \/ EcUpdate(p)

\* A call of the bootstrap fails.
EcFailureStep(p) == EcAddFails(p) \/ EcTrialFails(p)

EcStep(p) == EcBootstrapStep(p) \/ EcEmailStep(p) \/ EcFailureStep(p)

GasStep(p) == GasLookup(p) \/ GasRefetch(p) \/ GasListActive(p) \/ GasListTrialing(p)

GasCleanupStep(p) == GasCancel(p) \/ GasCancelInvalidRequest(p) \/ GasCancelOtherError(p)

UbeStep(p) == UbeLookup(p) \/ UbeModify(p) \/ UbeUpdate(p)

ProbeStep(p) ==
    \/ GbiLookup(p) \/ GbiRetrieve(p) \/ AuLookup(p) \/ AuCreate(p)
    \/ GpuLookup(p) \/ GpuList(p)

SessionStep(p) == CsCreate(p) \/ PsCreate(p)

UsStep(p) == UsRetrieve(p) \/ UsModify(p) \/ UsModifyFails(p)

ProviderStep == ProviderSubscriptionCreated \/ ProviderSubscriptionEnded

\* The sessions whose three identity fields are all present.
ValidSessions ==
    { s \in Sessions : s.tenant_id # None /\ s.tenant_name # None /\ s.email # None }

\* Concurrent requests of two workers against the shared store and provider:
\* the bootstrap paths (ensure_customer directly and through
\* get_active_subscription).  No paid subscription appears here, so the
\* duplicate clean-up has nothing to cancel.
Next ==
    \E p \in Procs :
       \/ StartEnsureCustomer(p, ValidSessions, {None, "e2"})
       \/ StartGetActiveSubscription(p, ValidSessions)
       \/ EcBootstrapStep(p) \/ EcEmailStep(p) \/ GasStep(p) \/ Finish(p)

Spec == Init /\ [][Next]_vars

\* One request at a time (no two requests interleave): the customer mapping
\* operations with every session and every override.
NextSeq ==
    \/ StartEnsureCustomer(1, Sessions, BillingEmailArgs)
    \/ StartGetActiveSubscription(1, Sessions)
    \/ StartUpdateBillingEmail(1, Sessions)
    \/ StartProbe(1, Sessions)
    \/ EcStep(1) \/ GasStep(1) \/ UbeStep(1) \/ ProbeStep(1) \/ Finish(1)

SpecSeq == Init /\ [][NextSeq]_vars

\* One request at a time, reading the tenant's subscription, while
\* subscriptions come and go at the provider.
NextSubs ==
    \/ StartGetActiveSubscription(1, Sessions)
    \/ EcBootstrapStep(1) \/ GasStep(1) \/ GasCleanupStep(1) \/ Finish(1)
    \/ ProviderStep

SpecSubs == Init /\ [][NextSubs]_vars


\* The secrets endpoints: the datastore and the encryption service are each
\* provisioned or not.
\* A secret that tenant tA saved while the service ran with its encryption key,
\* before the run that is modelled.
PreviouslySaved ==
    [name |-> "n1", displayName |-> "d1", environmentId |-> "env1", token |-> "tok1"]

InitSecrets ==
    /\ customers_coll = << >>
    /\ stripe_customers = << >>
    /\ stripe_subs = << >>
    /\ stripe_prices = << >>
    /\ trial_duration = {FREE_TRIAL_DURATION_DAYS}
    /\ proc = [ p \in Procs |-> Idle ]
    /\ ec_returned = [ t \in Tenants |-> {} ]
    /\ add_failed = {}
    /\ db_available \in BOOLEAN
    /\ enc_available \in BOOLEAN
    /\ \E earlier \in {NoConfig, PreviouslySaved} :
          /\ secrets_coll =
                [ scope \in Scopes |->
                    IF scope = "tA" /\ earlier # NoConfig
                    THEN (earlier.name :> SecretOf(earlier)) ELSE << >> ]
          /\ last_saved =
                [ t \in Scopes |-> [ n \in Names |->
                    IF t = "tA" /\ n = earlier.name THEN earlier ELSE NoConfig ] ]

NextSecrets == \E p \in Procs : SecretStep(p) \/ Finish(p)

SpecSecrets == InitSecrets /\ [][NextSecrets]_vars

\* One request at a time bootstrapping customers, under each configuration of
\* the trial: FREE_TRIAL_DURATION_DAYS None, zero, or the shipped value.
TrialDurations == { {}, {0}, {FREE_TRIAL_DURATION_DAYS} }

\* The price catalogues of this configuration: also one with an inactive
\* product and two paid prices.
TrialCatalogs ==
    Catalogs \cup
    { << [id |-> "price_free", product_active |-> TRUE, unit_amount |-> 0],
         [id |-> "price_old", product_active |-> FALSE, unit_amount |-> 500],
         [id |-> "price_pro", product_active |-> TRUE, unit_amount |-> 1000],
         [id |-> "price_max", product_active |-> TRUE, unit_amount |-> 5000] >> }

InitTrial ==
    /\ customers_coll = << >>
    /\ stripe_customers = << >>
    /\ stripe_subs = << >>
    /\ stripe_prices \in TrialCatalogs
    /\ trial_duration \in TrialDurations
    /\ proc = [ p \in Procs |-> Idle ]
    /\ ec_returned = [ t \in Tenants |-> {} ]
    /\ add_failed = {}
    /\ secrets_coll = [ scope \in Scopes |-> << >> ]
    /\ db_available = TRUE
    /\ enc_available = TRUE
    /\ last_saved = [ t \in Scopes |-> [ n \in Names |-> NoConfig ] ]

NextTrial ==
    \/ StartEnsureCustomer(1, ValidSessions, BillingEmailArgs)
    \/ StartGetActiveSubscription(1, ValidSessions)
    \/ EcBootstrapStep(1) \/ GasStep(1) \/ Finish(1)

SpecTrial == InitTrial /\ [][NextTrial]_vars

\* The secrets endpoints over a datastore that holds, for tenant tA, a record
\* whose token was encrypted under a key the service no longer has.
StaleCiphertext == "ct_0d4e"

StaleConfigs == { c \in SecretConfigs : c.token = "tok1" }

InitDecrypt ==
    /\ customers_coll = << >>
    /\ stripe_customers = << >>
    /\ stripe_subs = << >>
    /\ stripe_prices = << >>
    /\ trial_duration = {FREE_TRIAL_DURATION_DAYS}
    /\ proc = [ p \in Procs |-> Idle ]
    /\ ec_returned = [ t \in Tenants |-> {} ]
    /\ add_failed = {}
    /\ db_available = TRUE
    /\ enc_available = TRUE
    /\ \E earlier \in StaleConfigs :
          /\ secrets_coll =
                [ scope \in Scopes |->
                    IF scope = "tA"
                    THEN (earlier.name :>
                            [ SecretOf(earlier) EXCEPT !.encryptedToken = StaleCiphertext ])
                    ELSE << >> ]
          /\ last_saved =
                [ t \in Scopes |-> [ n \in Names |->
                    IF t = "tA" /\ n = earlier.name THEN earlier ELSE NoConfig ] ]

NextDecrypt ==
    \E p \in Procs : SecretStep(p) \/ SvcGetSecretsStoreFails(p) \/ Finish(p)

SpecDecrypt == InitDecrypt /\ [][NextDecrypt]_vars

\* One request at a time changing the plan of a subscription.  Tenant tA is
\* already a customer with a paid subscription of no, one or two line items;
\* tenant tB is not a customer yet.
UpdCatalogs ==
    { << [id |-> "price_free", product_active |-> TRUE, unit_amount |-> 0],
         [id |-> "price_pro", product_active |-> TRUE, unit_amount |-> 1000] >>,
      << [id |-> "price_free", product_active |-> TRUE, unit_amount |-> 0],
         [id |-> "price_pro", product_active |-> TRUE, unit_amount |-> 1000],
         [id |-> "price_max", product_active |-> TRUE, unit_amount |-> 5000] >> }

UpdItemChoices == { << >>, << "price_pro" >>, << "price_pro", "price_seat" >> }

InitUpd ==
    /\ customers_coll = (<< "auto", 1 >> :> Customer(1, "tA", "e1"))
    /\ stripe_customers = << [ email |-> "e1", name |-> "A", tenant_id |-> "tA" ] >>
    /\ \E items \in UpdItemChoices :
          stripe_subs = << [ customer |-> 1, status |-> "active", items |-> items,
                            type |-> "paid", missing_payment_method |-> "create_invoice" ] >>
    /\ stripe_prices \in UpdCatalogs
    /\ trial_duration = {FREE_TRIAL_DURATION_DAYS}
    /\ proc = [ p \in Procs |-> Idle ]
    /\ ec_returned = [ t \in Tenants |-> {} ]
    /\ add_failed = {}
    /\ secrets_coll = [ scope \in Scopes |-> << >> ]
    /\ db_available = TRUE
    /\ enc_available = TRUE
    /\ last_saved = [ t \in Scopes |-> [ n \in Names |-> NoConfig ] ]

NextUpd ==
    \/ StartUpdateSubscription(1, Sessions)
    \/ EcBootstrapStep(1) \/ EcEmailStep(1) \/ UsStep(1) \/ Finish(1)

SpecUpd == InitUpd /\ [][NextUpd]_vars

\* The secrets endpoints with the datastore and the encryption service
\* provisioned, where an encryption can still fail.
InitEncrypt == InitSecrets /\ db_available /\ enc_available

NextEncrypt ==
    \E p \in Procs : SecretStep(p) \/ SvcUpsertSecretEncryptFails(p) \/ Finish(p)

SpecEncrypt == InitEncrypt /\ [][NextEncrypt]_vars

\* One request at a time for tenant tA, which holds two mappings, each with
\* its provider customer and its trial: what two racing bootstraps leave.
DupEmails == { << "e1", "e1" >>, << "e1", "e2" >> }

InitDup ==
    /\ \E emails \in DupEmails :
          /\ customers_coll = (<< "auto", 1 >> :> Customer(1, "tA", emails[1]))
                                 @@ (<< "auto", 2 >> :> Customer(2, "tA", emails[2]))
          /\ stripe_customers =
                << [ email |-> emails[1], name |-> "A", tenant_id |-> "tA" ],
                   [ email |-> emails[2], name |-> "A", tenant_id |-> "tA" ] >>
    /\ stripe_subs =
          [ i \in 1..2 |-> [ customer |-> i, status |-> "trialing", items |-> << "price_pro" >>,
                             type |-> "trial", missing_payment_method |-> "cancel" ] ]
    /\ stripe_prices \in Catalogs
    /\ trial_duration = {FREE_TRIAL_DURATION_DAYS}
    /\ proc = [ p \in Procs |-> Idle ]
    /\ ec_returned = [ t \in Tenants |-> {} ]
    /\ add_failed = {}
    /\ secrets_coll = [ scope \in Scopes |-> << >> ]
    /\ db_available = TRUE
    /\ enc_available = TRUE
    /\ last_saved = [ t \in Scopes |-> [ n \in Names |-> NoConfig ] ]

\* The sessions of tenant tA.
SessionsOfA == { s \in Sessions : s.tenant_id = "tA" }

NextDup ==
    \/ StartEnsureCustomer(1, SessionsOfA, BillingEmailArgs)
    \/ StartGetActiveSubscription(1, SessionsOfA)
    \/ StartUpdateBillingEmail(1, SessionsOfA)
    \/ StartProbe(1, SessionsOfA)
    \/ EcBegin(1) \/ EcEmailStep(1)
    \/ GasLookup(1) \/ GasListActive(1) \/ GasListTrialing(1)
    \/ UbeStep(1) \/ ProbeStep(1) \/ Finish(1)

SpecDup == InitDup /\ [][NextDup]_vars

\* One tenant reading its subscription, one request at a time, every
\* cancellation succeeding and nothing else changing at the provider.  The
\* tenant's customer holds a paid subscription and trials; there may be more
\* trials than one page of stripe.Subscription.list returns.
PageTrials == { 0, 1, 2, SUBSCRIPTION_LIST_LIMIT + 1 }

PageSubs(actives, trials) ==
    [ i \in 1..(actives + trials) |->
        [ customer |-> 1, status |-> IF i <= actives THEN "active" ELSE "trialing",
          items |-> << "price_pro" >>, type |-> "paid",
          missing_payment_method |-> "create_invoice" ] ]

InitPage ==
    /\ customers_coll = (<< "auto", 1 >> :> Customer(1, "tA", "e1"))
    /\ stripe_customers = << [ email |-> "e1", name |-> "A", tenant_id |-> "tA" ] >>
    /\ \E actives \in 0..2, trials \in PageTrials : stripe_subs = PageSubs(actives, trials)
    /\ stripe_prices \in Catalogs
    /\ trial_duration = {FREE_TRIAL_DURATION_DAYS}
    /\ proc = [ p \in Procs |-> Idle ]
    /\ ec_returned = [ t \in Tenants |-> {} ]
    /\ add_failed = {}
    /\ secrets_coll = [ scope \in Scopes |-> << >> ]
    /\ db_available = TRUE
    /\ enc_available = TRUE
    /\ last_saved = [ t \in Scopes |-> [ n \in Names |-> NoConfig ] ]

NextPage ==
    \/ StartGetActiveSubscription(1, SessionsOfA)
    \/ GasLookup(1) \/ GasListActive(1) \/ GasListTrialing(1) \/ GasCancel(1)
    \/ GasAgain(1) \/ Finish(1)

SpecPage == InitPage /\ [][NextPage]_vars

\* Two workers creating checkout and portal sessions for valid sessions,
\* every call to the store and to the provider answering.
NextSessions ==
    \E p \in Procs :
       \/ StartCheckoutSession(p, ValidSessions, {None})
       \/ StartPortalSession(p, ValidSessions)
       \/ EcBootstrapStep(p) \/ SessionStep(p) \/ Finish(p)

SpecSessions == Init /\ [][NextSessions]_vars

\* =================================================================== claims
MappingsOf(t) == { k \in DOMAIN customers_coll : customers_coll[k].tenant_id = t }

ProviderCustomersOf(t) ==
    { c \in 1..Len(stripe_customers) : stripe_customers[c].tenant_id = t }

\* C1: with one request at a time, every ensure_customer that returns for a
\* tenant returns the same customer id, the customers collection then holds
\* exactly one CustomerMapping for the tenant, carrying that id, and (unless
\* a store add failed for the tenant) the provider holds exactly one customer
\* created for it.
C1_EnsureCustomerIdempotent ==
    \A t \in Tenants :
        ec_returned[t] # {} =>
            /\ Cardinality(ec_returned[t]) = 1
            /\ Cardinality(MappingsOf(t)) = 1
            /\ \A k \in MappingsOf(t) : customers_coll[k].id \in ec_returned[t]
            /\ (t \notin add_failed => Cardinality(ProviderCustomersOf(t)) = 1)

\* A second ensure_customer for the tenant has returned, with no failure
\* before it.
C1_Witness ==
    /\ proc[1].pc = "done" /\ proc[1].op = "ensure_customer"
    /\ proc[1].result.kind = "ok"
    /\ proc[1].again
    /\ proc[1].session.tenant_id \notin add_failed
    /\ ec_returned[proc[1].session.tenant_id] = { proc[1].result.val.customer_id }

\* C2: the add of ensure_customer is not held back by a mapping that another
\* request has persisted for the same tenant in the meantime: every add a
\* request has made left its own document, distinct documents carry distinct
\* provider customers, each created for the tenant of its mapping; so two
\* requests that both looked up before either added leave two mappings for
\* one tenant (the witness).
C2_RacingAddsBothPersist ==
    /\ \A p \in Procs : \A i \in 1..Len(proc[p].log) :
          (proc[p].log[i].call = "add" /\ proc[p].log[i].ok) =>
              \E k \in DOMAIN customers_coll :
                  /\ customers_coll[k].id = proc[p].log[i].arg
                  /\ customers_coll[k].tenant_id = proc[p].session.tenant_id
    /\ \A k1, k2 \in DOMAIN customers_coll :
          k1 # k2 => customers_coll[k1].id # customers_coll[k2].id
    /\ \A k \in DOMAIN customers_coll :
          /\ customers_coll[k].id \in 1..Len(stripe_customers)
          /\ stripe_customers[customers_coll[k].id].tenant_id = customers_coll[k].tenant_id

\* Two CustomerMappings and two provider customers for one tenant.
C2_Witness ==
    \E t \in Tenants :
        /\ Cardinality(MappingsOf(t)) = 2
        /\ Cardinality({ customers_coll[k].id : k \in MappingsOf(t) }) = 2
        /\ Cardinality(ProviderCustomersOf(t)) = 2

\* The cancellation calls a request has issued, in order.
CancelCalls(log) == SelectSeq(log, LAMBDA e : e.call = "Subscription.cancel")

IdsOf(subs) == { subs[i].id : i \in 1..Len(subs) }

Trialing(subs) == SeqFilterStatus(subs, TRUE)
NonTrialing(subs) == SeqFilterStatus(subs, FALSE)

\* The request listed at least one active subscription and at least one
\* trialing one.
ListedMixed(r) ==
    r.listed /\ Trialing(r.all_subs) # << >> /\ NonTrialing(r.all_subs) # << >>

\* The request listed subscriptions, all of them trialing.
ListedOnlyTrialing(r) ==
    r.listed /\ r.all_subs # << >> /\ NonTrialing(r.all_subs) = << >>

\* C3: when the lists hold at least one active and at least one trialing
\* subscription, get_active_subscription never sends a cancellation to a
\* listed non-trialing subscription nor two to one subscription, and when it
\* returns it has sent exactly one cancellation to each listed trialing
\* subscription and returns the view of a listed active subscription.
C3_ReconcileCancelsEachTrialOnce ==
    \A p \in Procs :
        LET r == proc[p]
            cancels == CancelCalls(r.log)
        IN  ListedMixed(r) =>
              /\ \A i \in 1..Len(cancels) : cancels[i].arg \in IdsOf(Trialing(r.all_subs))
              /\ \A i, j \in 1..Len(cancels) : i # j => cancels[i].arg # cancels[j].arg
              /\ (r.pc = "done" /\ r.result.kind = "ok") =>
                    /\ { cancels[i].arg : i \in 1..Len(cancels) } = IdsOf(Trialing(r.all_subs))
                    /\ r.result.val.id \in IdsOf(NonTrialing(r.all_subs))
                    /\ r.result.val.status = "active"

\* One active subscription and two trialing ones were listed, and the
\* request has returned.
C3_Witness ==
    /\ proc[1].pc = "done" /\ proc[1].result.kind = "ok"
    /\ ListedMixed(proc[1])
    /\ Len(Trialing(proc[1].all_subs)) = 2
    /\ Len(CancelCalls(proc[1].log)) = 2

\* C4: when the lists hold trialing subscriptions only, get_active_subscription
\* sends no cancellation, issues no call at all after the listing, and returns
\* the view of one of the listed trialing subscriptions.
C4_OnlyTrialsNoCancel ==
    \A p \in Procs :
        LET r == proc[p]
        IN  ListedOnlyTrialing(r) =>
              /\ r.pc = "done" /\ r.result.kind = "ok"
              /\ CancelCalls(r.log) = << >>
              /\ r.log[Len(r.log)].call = "Subscription.list"
              /\ r.result.val.id \in IdsOf(r.all_subs)
              /\ r.result.val.status = "trialing"

\* Two trialing subscriptions and no active one were listed.
C4_Witness ==
    /\ proc[1].pc = "done" /\ proc[1].result.kind = "ok"
    /\ ListedOnlyTrialing(proc[1])
    /\ Len(proc[1].all_subs) = 2

\* C5: when, with the mapping resolved, both lists come back empty,
\* get_active_subscription returns absent and raises nothing.
C5_NoSubscriptionReturnsAbsent ==
    \A p \in Procs :
        LET r == proc[p]
        IN  (r.listed /\ r.all_subs = << >>) =>
              /\ r.pc = "done"
              /\ r.result = Ok(NoVal)

\* Both lists were empty for a mapping that get_active_subscription itself
\* bootstrapped (the trial had ended before the listing).
C5_Witness ==
    /\ proc[1].pc = "done" /\ proc[1].listed /\ proc[1].all_subs = << >>
    /\ proc[1].customers # << >>
    /\ CallsOf(proc[1].log, {"Customer.create"}) # {}

\* C6: update_billing_email for a tenant without a CustomerMapping fails with
\* "No customer found", has issued no provider call and no store write.
C6_UpdateEmailWithoutMapping ==
    \A p \in Procs :
        LET r == proc[p]
        IN  (r.pc = "done" /\ r.op = "update_billing_email"
               /\ MappingsOf(r.session.tenant_id) = {}) =>
              /\ r.result.kind = "error"
              /\ r.result.err = "No customer found"
              /\ CallsOf(r.log, ProviderCalls) = {}
              /\ CallsOf(r.log, StoreWrites) = {}

\* The tenant has no mapping while another tenant has one, and the update
\* was refused.
C6_Witness ==
    /\ proc[1].pc = "done" /\ proc[1].op = "update_billing_email"
    /\ proc[1].result.err = "No customer found"
    /\ MappingsOf(proc[1].session.tenant_id) = {}
    /\ DOMAIN customers_coll # {}


\* The response that carries a SecretConfig as it was saved.
ResponseOf(config) ==
    [ name |-> config.name, displayName |-> config.displayName,
      environmentId |-> config.environmentId, token |-> config.token ]

\* C7: every call the secret store makes to the document store carries the
\* tenant id of the session as its scope, and every secret that get_secret
\* or the listing returns to a session is the one last saved under that
\* session's tenant, whatever other tenants saved under the same name.
C7_SecretsTenantIsolation ==
    \A p \in Procs :
        LET r == proc[p]
            t == r.session.tenant_id
        IN  /\ \A i \in 1..Len(r.log) :
                  "scope" \in DOMAIN r.log[i] => r.log[i].scope = t
            /\ (r.pc = "done" /\ r.op = "get_secret" /\ r.result.kind = "ok"
                  /\ r.result.val # NoVal) =>
                  /\ last_saved[t][r.name] # NoConfig
                  /\ r.result.val = ResponseOf(last_saved[t][r.name])
            /\ (r.pc = "done" /\ r.op = "get_secrets" /\ r.result.kind = "ok") =>
                  LET out == r.result.val.secrets
                  IN  /\ \A i \in 1..Len(out) :
                            /\ last_saved[t][out[i].name] # NoConfig
                            /\ out[i] = ResponseOf(last_saved[t][out[i].name])
                      /\ { out[i].name : i \in 1..Len(out) } =
                            { n \in Names : last_saved[t][n] # NoConfig }

\* Tenant tB reads a name that tenant tA has saved too, with other content,
\* and gets its own secret.
C7_Witness ==
    \E p \in Procs :
        /\ proc[p].pc = "done" /\ proc[p].op = "get_secret"
        /\ proc[p].session.tenant_id = "tB"
        /\ proc[p].result.kind = "ok" /\ proc[p].result.val # NoVal
        /\ last_saved["tA"][proc[p].name] # NoConfig
        /\ last_saved["tA"][proc[p].name] # last_saved["tB"][proc[p].name]

\* C8: with the encryption service available, get_secret(name) under a
\* tenant whose last write of that name was a save returns the name,
\* displayName, environmentId and plaintext token of that save.
C8_SaveGetRoundTrip ==
    \A p \in Procs :
        LET r == proc[p]
            t == r.session.tenant_id
        IN  (r.pc = "done" /\ r.op = "get_secret" /\ enc_available
               /\ last_saved[t][r.name] # NoConfig) =>
              /\ r.result.kind = "ok"
              /\ r.result.val = ResponseOf(last_saved[t][r.name])

\* A secret that replaced an earlier one under the same name is read back.
C8_Witness ==
    \E p \in Procs :
        /\ proc[p].pc = "done" /\ proc[p].op = "get_secret"
        /\ proc[p].result.kind = "ok" /\ proc[p].result.val # NoVal
        /\ proc[p].result.val.token = "tok2"
        /\ proc[p].result.val.displayName = "d2"

\* The calls of a secrets request that reach the document store or the
\* encryption service.
SecretCalls(log) ==
    { i \in 1..Len(log) :
        log[i].call \in { "encrypt_secret", "decrypt_secret", "set_document",
                          "query_documents", "get_document", "delete_document" } }

ServiceSaveOrList(r) ==
    r.pc = "done" /\ r.op \in { "upsert_secret", "get_secrets" }

\* C9 as stated: with the encryption service unavailable, saving and listing
\* fail with encryption_unavailable, with no encryption, decryption or call
\* to the document store.
C9_AsStated ==
    \A p \in Procs :
        (~enc_available /\ ServiceSaveOrList(proc[p])) =>
            /\ proc[p].result.kind = "error"
            /\ proc[p].result.err = "encryption_unavailable"
            /\ SecretCalls(proc[p].log) = {}

\* C9: with the encryption service unavailable, saving and listing through
\* the service fail: with encryption_unavailable when the datastore is
\* available, with datastore_unavailable when it is not; neither encrypts,
\* decrypts nor calls the document store, and the stored secrets are the
\* ones saved before.
C9_EncryptionUnavailable ==
    \A p \in Procs :
        (~enc_available /\ ServiceSaveOrList(proc[p])) =>
            /\ proc[p].result.kind = "error"
            /\ proc[p].result.err =
                  IF db_available THEN "encryption_unavailable" ELSE "datastore_unavailable"
            /\ SecretCalls(proc[p].log) = {}
            /\ \A t \in Scopes :
                  /\ DOMAIN secrets_coll[t] = { n \in Names : last_saved[t][n] # NoConfig }
                  /\ \A n \in DOMAIN secrets_coll[t] :
                        /\ last_saved[t][n] = PreviouslySaved
                        /\ secrets_coll[t][n] = SecretOf(PreviouslySaved)

\* A save is refused with encryption_unavailable while the datastore is
\* available and holds a secret.
C9_Witness ==
    \E p \in Procs :
        /\ ~enc_available /\ db_available
        /\ proc[p].pc = "done" /\ proc[p].op = "upsert_secret"
        /\ proc[p].result.err = "encryption_unavailable"
        /\ secrets_coll["tA"] # << >>

ValidationError == "Email and tenant_name and tenant_id are required"

\* The identity fields ensure_customer works with are not all present.
IdentityAbsent(r) ==
    \/ ResolveEmail(r.billing_email, r.session) = None
    \/ r.session.tenant_id = None
    \/ r.session.tenant_name = None

EcRunning(r) ==
    r.pc \in { "ec_modify", "ec_update", "ec_create", "ec_add", "ec_products", "ec_trial" }

\* C10: ensure_customer ends with the validation error exactly when the
\* resolved email, the tenant id or the tenant display name is absent; it
\* then has issued no provider call and no store read or write, and it never
\* gets past its validation with one of the three absent.
C10_ValidationBeforeAnyCall ==
    \A p \in Procs :
        LET r == proc[p]
        IN  /\ (r.pc = "done" /\ r.op = "ensure_customer") =>
                  (IdentityAbsent(r) <=> r.result.err = ValidationError)
            /\ (r.pc = "done" /\ r.op = "ensure_customer" /\ IdentityAbsent(r)) =>
                  /\ r.result.kind = "error"
                  /\ r.log = << >>
            /\ r.result.err = ValidationError =>
                  /\ IdentityAbsent(r)
                  /\ Len(r.log) = r.ec_start
            /\ EcRunning(r) => ~IdentityAbsent(r)

\* ensure_customer was refused for a session without a tenant display name
\* while another tenant already has a mapping.
C10_Witness ==
    /\ proc[1].pc = "done" /\ proc[1].op = "ensure_customer"
    /\ proc[1].result.err = ValidationError
    /\ proc[1].session.tenant_name = None
    /\ DOMAIN customers_coll # {}


\* The request has ended without a CustomerMapping for its tenant.
EndedWithoutMapping(r, op) ==
    r.pc = "done" /\ r.op = op /\ MappingsOf(r.session.tenant_id) = {}

\* C11: get_billing_info for a tenant without a CustomerMapping returns the
\* session's email with has_payment_method = false, has issued no provider
\* call, and leaves the tenant without a mapping; and no get_billing_info,
\* with or without a mapping, issues a store write.
C11_BillingInfoReadOnly ==
    \A p \in Procs :
        LET r == proc[p]
        IN  /\ EndedWithoutMapping(r, "get_billing_info") =>
                  /\ r.result = Ok([ billing_email |-> r.session.email,
                                     has_payment_method |-> FALSE ])
                  /\ CallsOf(r.log, ProviderCalls) = {}
            /\ r.op = "get_billing_info" =>
                  /\ CallsOf(r.log, StoreWrites) = {}
                  /\ CallsOf(r.log, {"Customer.create", "Customer.modify",
                                     "Subscription.create"}) = {}

\* get_billing_info answered for a tenant without a mapping while another
\* tenant has one.
C11_Witness ==
    /\ EndedWithoutMapping(proc[1], "get_billing_info")
    /\ proc[1].result.kind = "ok"
    /\ proc[1].session.tenant_id = "tB"
    /\ MappingsOf("tA") # {}

\* C12 as stated: without a CustomerMapping both add_usage and
\* get_pending_usage end with an error, with no provider call and no store
\* write.
C12_AsStated ==
    \A p \in Procs :
        LET r == proc[p]
        IN  (EndedWithoutMapping(r, "add_usage") \/ EndedWithoutMapping(r, "get_pending_usage")) =>
              /\ r.result.kind = "error"
              /\ CallsOf(r.log, ProviderCalls) = {}
              /\ CallsOf(r.log, StoreWrites) = {}

\* C12: without a CustomerMapping add_usage fails with "No customer found.
\* Please set up billing first." and get_pending_usage returns the empty
\* list; neither issues a provider call nor a store write, and the tenant is
\* left without a mapping.
C12_UsageWithoutMapping ==
    \A p \in Procs :
        LET r == proc[p]
        IN  /\ EndedWithoutMapping(r, "add_usage") =>
                  /\ r.result.kind = "error"
                  /\ r.result.err = "No customer found. Please set up billing first."
                  /\ CallsOf(r.log, ProviderCalls) = {}
                  /\ CallsOf(r.log, StoreWrites) = {}
            /\ EndedWithoutMapping(r, "get_pending_usage") =>
                  /\ r.result = Ok([ items |-> << >> ])
                  /\ CallsOf(r.log, ProviderCalls) = {}
                  /\ CallsOf(r.log, StoreWrites) = {}
            /\ r.op \in {"add_usage", "get_pending_usage"} =>
                  CallsOf(r.log, StoreWrites \cup {"Customer.create"}) = {}

\* get_pending_usage has answered with the empty list for a tenant without
\* a mapping.
C12_Witness ==
    /\ EndedWithoutMapping(proc[1], "get_pending_usage")
    /\ proc[1].result.kind = "ok"
    /\ MappingsOf("tA") # {}


\* The stored records a finished read of the secret store had to decrypt.
RecordsRead(r) ==
    LET scope == SecretsStoreTenantId(r.session)
    IN  IF r.op = "get_secrets" THEN query_all_documents(secrets_coll, scope)
        ELSE IF doc_exists(secrets_coll, scope, r.name)
             THEN << secrets_coll[scope][r.name] >> ELSE << >>

\* A read of the secret store has ended after a decryption that failed.
DecryptFailedRead(r) ==
    /\ r.pc = "done" /\ r.op \in {"get_secrets", "get_secret"}
    /\ \E i \in 1..Len(r.log) : r.log[i].call = "decrypt_secret"
    /\ AnyDecryptFails(RecordsRead(r), enc_available)

\* C13 as stated: a read that meets a record it cannot decrypt ends with the
\* error "decryption_error", a condition no other failure produces.
C13_AsStated ==
    \A p \in Procs :
        DecryptFailedRead(proc[p]) =>
            /\ proc[p].result.kind = "error"
            /\ proc[p].result.err = "decryption_error"

\* The listing has ended with internal_error on a record it cannot decrypt.
C13_Witness ==
    \E p \in Procs :
        /\ DecryptFailedRead(proc[p])
        /\ proc[p].op = "get_secrets"
        /\ proc[p].result.err = "internal_error"
        /\ Len(RecordsRead(proc[p])) = 2


ServiceOps == { "get_secrets", "upsert_secret", "check_secret_exists", "delete_secret" }

\* C14: with the datastore not provisioned, every operation of the secrets
\* service (list, upsert, check-exists, delete) ends with
\* datastore_unavailable, which is not not_found, having issued no call to
\* the document store and no encryption or decryption.
C14_DatastoreUnavailable ==
    \A p \in Procs :
        LET r == proc[p]
        IN  (~db_available /\ r.op \in ServiceOps) =>
              /\ r.pc = "done"
              /\ r.result.kind = "error"
              /\ r.result.err = "datastore_unavailable"
              /\ r.result.err # "not_found"
              /\ r.log = << >>
              /\ \A t \in Scopes : secrets_coll[t] = << >>
                                      \/ secrets_coll[t] = (PreviouslySaved.name :> SecretOf(PreviouslySaved))

\* A delete of a name that is stored ends with datastore_unavailable, not
\* with not_found, and the record is still there.
C14_Witness ==
    \E p \in Procs :
        /\ ~db_available
        /\ proc[p].pc = "done" /\ proc[p].op = "delete_secret"
        /\ proc[p].result.err = "datastore_unavailable"
        /\ proc[p].session.tenant_id = "tA"
        /\ proc[p].name \in DOMAIN secrets_coll["tA"]


\* The entries of a log for one call, in order.
Entries(log, call) == SelectSeq(log, LAMBDA e : e.call = call)

SubsOfCustomer(id) == { s \in 1..Len(stripe_subs) : stripe_subs[s].customer = id }

\* ensure_customer has returned to its client after creating a customer.
Bootstrapped(r) ==
    /\ r.pc = "done" /\ r.op = "ensure_customer" /\ r.result.kind = "ok"
    /\ Entries(r.log, "Customer.create") # << >>

\* C15: an ensure_customer that returns after finding no CustomerMapping has
\* created exactly one provider customer and added exactly one mapping, which
\* carries that customer's id, the tenant id and the resolved email; with a
\* positive trial duration it has created exactly one subscription, a trial
\* on the first paid price that is canceled when no payment method is there;
\* with the duration zero or None it has created no subscription.
C15_BootstrapCreatesOneOfEach ==
    \A p \in Procs :
        LET r == proc[p]
            t == r.session.tenant_id
            id == r.result.val.customer_id
            email == ResolveEmail(r.billing_email, r.session)
            created == Entries(r.log, "Subscription.create")
        IN  Bootstrapped(r) =>
              /\ Len(Entries(r.log, "Customer.create")) = 1
              /\ Entries(r.log, "Customer.create")[1].arg = id
              /\ stripe_customers[id].email = email
              /\ stripe_customers[id].tenant_id = t
              /\ Len(Entries(r.log, "add")) = 1
              /\ Cardinality(MappingsOf(t)) = 1
              /\ \A k \in MappingsOf(t) : customers_coll[k] = Customer(id, t, email)
              /\ IF \E days \in trial_duration : days > 0
                 THEN /\ Len(created) = 1
                      /\ SubsOfCustomer(id) = { created[1].arg }
                      /\ stripe_subs[created[1].arg] =
                            [ customer |-> id, status |-> "trialing",
                              items |-> << get_products(stripe_prices)[1].price_id >>,
                              type |-> "trial", missing_payment_method |-> "cancel" ]
                 ELSE /\ created = << >>
                      /\ SubsOfCustomer(id) = {}

\* A customer was bootstrapped with the trial configured as zero days: it has
\* a mapping and no subscription.
C15_Witness ==
    /\ Bootstrapped(proc[1])
    /\ trial_duration = {0}
    /\ stripe_subs = << >>
    /\ Len(get_products(stripe_prices)) = 2


\* C16 as stated: the local update of update_billing_email, addressed by the
\* provider customer id, hits the document that add created for the mapping,
\* and once update_billing_email(e) has succeeded the provider customer and
\* the mapping found by tenant both carry e.
C16_AsStated ==
    \A p \in Procs :
        LET r == proc[p]
            t == r.session.tenant_id
        IN  /\ r.pc = "ube_update" =>
                  /\ update_document_found(customers_coll, DocKeyOfCustomer(r.customer_id))
                  /\ DocKeyOfCustomer(r.customer_id) \in MappingsOf(t)
            /\ (r.pc = "done" /\ r.op = "update_billing_email" /\ r.result.kind = "ok") =>
                  /\ stripe_customers[r.customer_id].email = r.new_email
                  /\ get_by_field(customers_coll, "tenant_id", t)[1].email = r.new_email

\* update_billing_email has ended in an error after the provider took the new
\* email: the mapping that ensure_customer added still carries the old one.
C16_Witness ==
    /\ proc[1].pc = "done" /\ proc[1].op = "update_billing_email"
    /\ proc[1].result.kind = "error"
    /\ Entries(proc[1].log, "Customer.modify") # << >>
    /\ stripe_customers[proc[1].customer_id].email = proc[1].new_email
    /\ Cardinality(MappingsOf(proc[1].session.tenant_id)) = 1
    /\ \A k \in MappingsOf(proc[1].session.tenant_id) :
          /\ customers_coll[k].id = proc[1].customer_id
          /\ customers_coll[k].email # proc[1].new_email


\* The listed subscriptions that are still active or trialing at the provider.
ListedAndLive(r) ==
    { s \in IdsOf(r.all_subs) : stripe_subs[s].status \in {"active", "trialing"} }

\* get_active_subscription has returned after its listing, and no
\* cancellation it issued was refused.
ReturnedAfterCleanup(r) ==
    /\ r.pc = "done" /\ r.op = "get_active_subscription"
    /\ r.listed /\ r.result.kind = "ok"
    /\ \A i \in 1..Len(r.log) : r.log[i].call = "Subscription.cancel" => r.log[i].ok

\* C17 as stated: once get_active_subscription has returned, with every
\* cancellation it issued successful, at most one of the subscriptions it
\* listed is still active or trialing.
C17_AsStated ==
    \A p \in Procs :
        ReturnedAfterCleanup(proc[p]) => Cardinality(ListedAndLive(proc[p])) <= 1

\* get_active_subscription has returned one of two listed trials, without a
\* cancellation, and both are still trialing.
C17_Witness ==
    /\ ReturnedAfterCleanup(proc[1])
    /\ ListedOnlyTrialing(proc[1])
    /\ Len(proc[1].all_subs) = 2
    /\ Cardinality(ListedAndLive(proc[1])) = 2


\* The cancellations of a request that raised.
FailedCancels(log) ==
    SelectSeq(log, LAMBDA e : e.call = "Subscription.cancel" /\ ~e.ok)

\* The ids of the first n subscriptions of a list.
FirstIds(subs, n) == { subs[i].id : i \in 1..n }

\* C18 as stated: with an active and a trialing subscription listed, a
\* cancellation that fails, whatever the provider error, does not end
\* get_active_subscription: every listed trial is sent a cancellation and
\* the active subscription is returned.
C18_AsStated ==
    \A p \in Procs :
        LET r == proc[p]
            cancels == CancelCalls(r.log)
        IN  (ListedMixed(r) /\ r.pc = "done" /\ FailedCancels(r.log) # << >>) =>
              /\ r.result.kind = "ok"
              /\ { cancels[i].arg : i \in 1..Len(cancels) } = IdsOf(Trialing(r.all_subs))
              /\ r.result.val.id \in IdsOf(NonTrialing(r.all_subs))

\* C18: during the clean-up a cancellation refused with InvalidRequestError
\* does not end get_active_subscription: the remaining trials are still sent
\* a cancellation and the active subscription is returned. Any other provider
\* error of a cancellation ends the call with that error: it is the last call
\* issued, the trials listed after the failing one are sent no cancellation
\* and nothing is returned.
C18_OnlyInvalidRequestAbsorbed ==
    \A p \in Procs :
        LET r == proc[p]
            cancels == CancelCalls(r.log)
            failed == FailedCancels(r.log)
            sent == { cancels[i].arg : i \in 1..Len(cancels) }
        IN  ListedMixed(r) =>
              /\ \A i \in 1..Len(failed) :
                    failed[i].error # "InvalidRequestError" =>
                        /\ r.pc = "done"
                        /\ r.result.kind = "error"
                        /\ r.result.err = "upstream_error"
                        /\ r.log[Len(r.log)] = failed[i]
                        /\ sent = FirstIds(Trialing(r.all_subs), Len(cancels))
              /\ (r.pc = "done" /\ \A i \in 1..Len(failed) : failed[i].error = "InvalidRequestError") =>
                    /\ r.result.kind = "ok"
                    /\ sent = IdsOf(Trialing(r.all_subs))
                    /\ r.result.val.id \in IdsOf(NonTrialing(r.all_subs))

\* The cancellation of the first trial was refused (the trial had ended in
\* the meantime), the second trial was canceled and the active subscription
\* returned.
C18_Witness ==
    LET cancels == CancelCalls(proc[1].log)
    IN  /\ proc[1].pc = "done" /\ proc[1].result.kind = "ok"
        /\ ListedMixed(proc[1])
        /\ Len(cancels) = 2
        /\ ~cancels[1].ok
        /\ cancels[2].ok


\* ensure_customer has ended for a tenant whose mapping it found.
EndedOnFoundMapping(r) ==
    r.pc = "done" /\ r.op = "ensure_customer" /\ r.customers # << >>

\* The override is supplied and differs from the stored email.
OverrideDiffers(r) ==
    r.billing_email # None /\ r.customers[1].email # r.billing_email

\* C19 as stated: ensure_customer on a tenant that has a mapping creates
\* nothing and returns the id of the mapping; with an override that differs
\* from the stored email the provider customer and the mapping both take the
\* email, otherwise no provider call and no store write is issued.
C19_AsStated ==
    \A p \in Procs :
        LET r == proc[p]
            t == r.session.tenant_id
        IN  EndedOnFoundMapping(r) =>
              /\ CallsOf(r.log, {"Customer.create", "add", "Subscription.create"}) = {}
              /\ r.result.kind = "ok"
              /\ r.result.val.customer_id = r.customers[1].id
              /\ IF OverrideDiffers(r)
                 THEN /\ stripe_customers[r.customers[1].id].email = r.email
                      /\ get_by_field(customers_coll, "tenant_id", t)[1].email = r.email
                 ELSE /\ CallsOf(r.log, ProviderCalls) = {}
                      /\ CallsOf(r.log, StoreWrites) = {}

\* ensure_customer with an override that differs has modified the provider
\* customer and then ended in an error, the mapping unchanged.
C19_Witness ==
    /\ EndedOnFoundMapping(proc[1])
    /\ OverrideDiffers(proc[1])
    /\ proc[1].result.kind = "error"
    /\ stripe_customers[proc[1].customers[1].id].email = proc[1].email
    /\ get_by_field(customers_coll, "tenant_id", proc[1].session.tenant_id) = proc[1].customers

\* ------------------------------------------------------------------- C20
\* The calls ensure_customer issues, and the calls of the subscription step
\* of update_subscription.
EnsureCustomerCalls ==
    { "get_by_field", "Customer.create", "Customer.modify", "add", "update",
      "Price.list", "Subscription.create" }

SubscriptionStepCalls == { "Subscription.retrieve", "Subscription.modify" }

\* The request carries a billing_email that update_subscription acts on.
WithBillingEmail(r) ==
    r.op = "update_subscription" /\ r.billing_email \notin {None, ""}

\* The email changes the request has made: provider customers created or
\* modified, and mappings added, each still carrying the email of the request.
EmailChangesStand(r) ==
    /\ \A i \in CallsOf(r.log, {"Customer.create", "Customer.modify"}) :
          r.log[i].ok => stripe_customers[r.log[i].arg].email = r.email
    /\ \A i \in CallsOf(r.log, {"add"}) :
          r.log[i].ok =>
             \E k \in DOMAIN customers_coll :
                customers_coll[k] = Customer(r.log[i].arg, r.session.tenant_id, r.email)

\* C20: update_subscription with a billing_email issues every call of
\* ensure_customer(billing_email) before the provider subscription is
\* retrieved or modified; the modification names the first line item only,
\* with proration_behavior "create_prorations", and leaves the other line
\* items as they were; a subscription without line items ends the request with
\* "Subscription has no items" and without a modification; and when the
\* request ends in an error, the provider customer and the mapping keep the
\* email the request gave them.
C20_EmailFirstThenFirstItem ==
    \A p \in Procs :
        LET r == proc[p]
            id == r.subscription_id
            steps == CallsOf(r.log, SubscriptionStepCalls)
            modifies == CallsOf(r.log, {"Subscription.modify"})
        IN  WithBillingEmail(r) =>
              /\ \A i \in steps :
                    /\ \A j \in CallsOf(r.log, EnsureCustomerCalls) : j < i
                    /\ \E j \in CallsOf(r.log, {"get_by_field"}) : j < i
                    /\ r.email = r.billing_email
              /\ \A i \in modifies :
                    /\ r.log[i].item_id = 1
                    /\ r.log[i].price = r.new_price_id
                    /\ r.log[i].proration_behavior = "create_prorations"
                    /\ \E j \in CallsOf(r.log, {"Subscription.retrieve"}) : j < i
              /\ Cardinality(modifies) <= 1
              /\ (r.pc = "done" /\ r.result.kind = "ok") =>
                    /\ modifies # {}
                    /\ stripe_subs[id].items =
                          << r.new_price_id >> \o Tail(r.subscription[1].items)
                    /\ r.result.val.price_id = r.new_price_id
              /\ (r.subscription # << >> /\ r.subscription[1].items = << >>) =>
                    /\ r.pc = "done"
                    /\ r.result.kind = "error"
                    /\ r.result.err = "Subscription has no items"
                    /\ modifies = {}
                    /\ stripe_subs[id].items = << >>
              /\ (r.pc = "done" /\ r.result.kind = "error") => EmailChangesStand(r)

\* A tenant without a mapping has changed the plan of a subscription of two
\* line items with a billing_email of its own: the customer was created with
\* that email before the subscription was retrieved, and the first line item
\* alone has the new price.
C20_Witness ==
    LET r == proc[1]
    IN  /\ WithBillingEmail(r)
        /\ r.pc = "done"
        /\ r.result.kind = "ok"
        /\ r.billing_email # r.session.email
        /\ \E i \in CallsOf(r.log, {"Customer.create"}) :
              stripe_customers[r.log[i].arg].email = r.billing_email
        /\ Len(r.subscription[1].items) = 2
        /\ r.subscription[1].items[1] # r.new_price_id
        /\ stripe_subs[r.subscription_id].items[1] = r.new_price_id
        /\ stripe_subs[r.subscription_id].items[2] = r.subscription[1].items[2]

\* ------------------------------------------------------------------- C21
SessionCalls == { "checkout.Session.create", "billing_portal.Session.create" }

SessionOps == { "create_checkout_session", "create_portal_session" }

\* C21: create_checkout_session and create_portal_session issue the
\* provider's session-creation call only after ensure_customer has returned,
\* and for the customer id it returned: the lookup by tenant precedes the
\* call, a tenant without a mapping has had its mapping added before the
\* call, and a CustomerMapping of the session's tenant with that customer id
\* exists whenever a session was created; a request that succeeded has
\* created exactly one session.
C21_SessionForMappedCustomer ==
    \A p \in Procs :
        LET r == proc[p]
            created == CallsOf(r.log, SessionCalls)
        IN  r.op \in SessionOps =>
              /\ \A i \in created :
                    /\ r.log[i].arg = r.customer_id
                    /\ \E j \in CallsOf(r.log, {"get_by_field"}) : j < i
                    /\ \E k \in DOMAIN customers_coll :
                          /\ customers_coll[k].tenant_id = r.session.tenant_id
                          /\ customers_coll[k].id = r.log[i].arg
                    /\ r.customers = << >> =>
                          \E j \in CallsOf(r.log, {"add"}) :
                             j < i /\ r.log[j].ok /\ r.log[j].arg = r.log[i].arg
                    /\ r.customers # << >> => r.log[i].arg = r.customers[1].id
              /\ Cardinality(created) <= 1
              /\ (r.pc = "done" /\ r.result.kind = "ok") => created # {}

\* A checkout session was created for a tenant that had no mapping: the
\* bootstrap came first and the session is for the tenant's new customer,
\* which is not the provider's first one.
C21_Witness ==
    \E p \in Procs :
        LET r == proc[p]
        IN  /\ r.op = "create_checkout_session"
            /\ r.pc = "done"
            /\ r.result.kind = "ok"
            /\ r.customers = << >>
            /\ r.customer_id = 2
            /\ \E i \in CallsOf(r.log, SessionCalls) : r.log[i].arg = 2
            /\ \E k \in DOMAIN customers_coll :
                  customers_coll[k] = Customer(2, r.session.tenant_id, r.email)

\* ------------------------------------------------------------------- C22
\* The save that has just ended under a scope.
SavedNow(r) ==
    r.pc = "done" /\ r.op = "upsert_secret" /\ r.result.kind = "ok"

\* C22: a save under a name that exists succeeds and replaces the record: in
\* every state each tenant holds at most one secret per name (the records of
\* a tenant are keyed by their name), each record is the stored form of the
\* most recent save of its name and nothing of an earlier record is left in
\* it, and get_secret(name) answers with the fields of the most recent save.
C22_SaveReplacesRecord ==
    /\ \A t \in Scopes : \A n \in DOMAIN secrets_coll[t] :
          /\ secrets_coll[t][n].name = n
          /\ last_saved[t][n] # NoConfig
          /\ secrets_coll[t][n] = SecretOf(last_saved[t][n])
    /\ \A p \in Procs :
          LET r == proc[p]
              t == r.session.tenant_id
          IN  /\ SavedNow(r) =>
                    /\ last_saved[t][r.config.name] = r.config
                    /\ secrets_coll[t][r.config.name] = SecretOf(r.config)
              /\ (r.pc = "done" /\ r.op = "upsert_secret" /\ db_available /\ enc_available) =>
                    r.result.kind = "ok"
              /\ (r.pc = "done" /\ r.op = "get_secret" /\ r.result.kind = "ok"
                    /\ r.result.val # NoVal) =>
                    /\ r.result.val.displayName = last_saved[t][r.name].displayName
                    /\ r.result.val.environmentId = last_saved[t][r.name].environmentId
                    /\ r.result.val.token = last_saved[t][r.name].token

\* A save has replaced a record of the same name whose display name,
\* environment and token were all different.
C22_Witness ==
    \E p \in Procs :
        LET r == proc[p]
            before == r.log[Len(r.log)].before
        IN  /\ SavedNow(r)
            /\ before # NoSecret
            /\ before.name = r.config.name
            /\ before.displayName # r.config.displayName
            /\ before.environmentId # r.config.environmentId
            /\ before.encryptedToken # encrypt_secret(r.config.token)
            /\ secrets_coll[r.session.tenant_id][r.config.name] = SecretOf(r.config)

\* ------------------------------------------------------------------- C23
\* The fields of a stored Secret.
SecretFields == { "name", "displayName", "environmentId", "encryptedToken" }

\* The save ended because the encryption raised.
EncryptFailed(r) ==
    r.pc = "done" /\ r.op = "upsert_secret" /\ r.result.kind = "error"
       /\ r.result.err = "encryption_error"

\* C23: every persisted Secret holds in encryptedToken the ciphertext of the
\* token that was submitted in the most recent save of its name, never a
\* plaintext token, and has no other field that could carry one; in every
\* request the encryption precedes the write to the store, and a save whose
\* encryption failed has written nothing: the records are still those of the
\* saves that succeeded.
C23_CiphertextOnlyInStore ==
    /\ \A t \in Scopes : \A n \in DOMAIN secrets_coll[t] :
          /\ DOMAIN secrets_coll[t][n] = SecretFields
          /\ secrets_coll[t][n].encryptedToken \notin Tokens
          /\ last_saved[t][n] # NoConfig
          /\ secrets_coll[t][n].encryptedToken = encrypt_secret(last_saved[t][n].token)
    /\ \A t \in Scopes : \A n \in Names :
          last_saved[t][n] # NoConfig => n \in DOMAIN secrets_coll[t]
    /\ \A p \in Procs :
          LET r == proc[p]
          IN  /\ \A i \in 1..Len(r.log) :
                    r.log[i].call = "set_document" =>
                       \E j \in 1..(i - 1) : r.log[j].call = "encrypt_secret"
              /\ EncryptFailed(r) =>
                    \A i \in 1..Len(r.log) : r.log[i].call # "set_document"

\* A save over an existing name ended with encryption_error; the record of
\* the earlier save, with its own ciphertext, is still the one stored.
C23_Witness ==
    \E p \in Procs :
        LET r == proc[p]
            t == r.session.tenant_id
        IN  /\ EncryptFailed(r)
            /\ r.config.name \in DOMAIN secrets_coll[t]
            /\ last_saved[t][r.config.name] # r.config
            /\ secrets_coll[t][r.config.name].encryptedToken # encrypt_secret(r.config.token)
            /\ secrets_coll[t][r.config.name] = SecretOf(last_saved[t][r.config.name])

\* ------------------------------------------------------------------- C24
\* The lookup by tenant of the request returned more than one mapping.
FoundDuplicates(r) == Len(r.customers) > 1

\* The provider calls that name a customer.
CustomerCalls ==
    { "Customer.modify", "Customer.retrieve", "Subscription.list",
      "InvoiceItem.create", "InvoiceItem.list" }

\* The operations that write no email.
ReadingOps == { "get_active_subscription", "get_billing_info", "add_usage", "get_pending_usage" }

\* C24: a billing operation whose lookup by tenant returned more than one
\* mapping works with the first one returned: every provider call it issues
\* names the customer of that mapping, it adds no mapping and creates no
\* customer, the mappings in the store stay the ones that were there, and
\* the duplicate makes no operation fail: the operations that write no email
\* succeed, ensure_customer without an email to change returns the id of the
\* first mapping, and the only error is the one the email update of a single
\* mapping ends with as well (the store's update of the mapping).
C24_FirstMappingOfDuplicates ==
    /\ DOMAIN customers_coll = { << "auto", 1 >>, << "auto", 2 >> }
    /\ \A k \in DOMAIN customers_coll :
          customers_coll[k].id = k[2] /\ customers_coll[k].tenant_id = "tA"
    /\ \A p \in Procs :
          LET r == proc[p]
          IN  FoundDuplicates(r) =>
                /\ \A i \in CallsOf(r.log, CustomerCalls) : r.log[i].arg = r.customers[1].id
                /\ r.customers[1] = get_by_field(customers_coll, "tenant_id", r.session.tenant_id)[1]
                /\ CallsOf(r.log, {"add", "Customer.create", "Subscription.create"}) = {}
                /\ r.pc = "done" =>
                      /\ r.op \in ReadingOps => r.result.kind = "ok"
                      /\ r.result.kind = "error" =>
                            /\ r.result.err = "document not found"
                            /\ CallsOf(r.log, {"update"}) # {}
                      /\ (r.op = "ensure_customer" /\ r.result.kind = "ok") =>
                            r.result.val.customer_id = r.customers[1].id
                      /\ (r.op = "get_active_subscription" /\ r.result.val # NoVal) =>
                            stripe_subs[r.result.val.id].customer = r.customers[1].id

\* get_active_subscription found two mappings of the tenant and returned the
\* trial of the first one's customer.
C24_Witness ==
    LET r == proc[1]
    IN  /\ FoundDuplicates(r)
        /\ r.op = "get_active_subscription"
        /\ r.pc = "done"
        /\ r.result.kind = "ok"
        /\ r.result.val # NoVal
        /\ stripe_subs[r.result.val.id].customer = r.customers[1].id
        /\ r.customers[2].id # r.customers[1].id

\* ------------------------------------------------------------------- C25
\* The failed store writes of a request.
FailedWrites(r, call) == { i \in CallsOf(r.log, {call}) : ~r.log[i].ok }

\* The email a request writes.
WrittenEmail(r) == IF r.op = "update_billing_email" THEN r.new_email ELSE r.email

\* C25: the provider write and the write of the mapping are two steps, the
\* provider first, and nothing compensates.  In update_billing_email and in
\* ensure_customer's email update stripe.Customer.modify precedes the store's
\* update; when that update fails the request ends there, the provider
\* customer has the new email and the mapping the old one.  In the bootstrap
\* stripe.Customer.create precedes the store's add; when the add fails the
\* request ends there, the provider customer is still there and no mapping
\* names it.
C25_ProviderFirstNoCompensation ==
    \A p \in Procs :
        LET r == proc[p]
            t == r.session.tenant_id
        IN  /\ \A i \in CallsOf(r.log, {"update"}) :
                  i > 1 /\ r.log[i - 1].call = "Customer.modify" /\ r.log[i - 1].ok
                        /\ r.log[i - 1].arg = r.log[i].arg
            /\ \A i \in CallsOf(r.log, {"add"}) :
                  i > 1 /\ r.log[i - 1].call = "Customer.create" /\ r.log[i - 1].ok
                        /\ r.log[i - 1].arg = r.log[i].arg
            /\ \A i \in FailedWrites(r, "update") :
                  /\ i = Len(r.log)
                  /\ r.pc = "done" /\ r.result.kind = "error"
                  /\ r.log[i].arg \in 1..Len(stripe_customers)
                  /\ stripe_customers[r.log[i].arg].email = WrittenEmail(r)
                  /\ get_by_field(customers_coll, "tenant_id", t) = r.customers
                  /\ r.customers[1].id = r.log[i].arg
            /\ \A i \in FailedWrites(r, "add") :
                  /\ i = Len(r.log)
                  /\ r.pc = "done" /\ r.result.kind = "error"
                  /\ r.log[i].arg \in 1..Len(stripe_customers)
                  /\ stripe_customers[r.log[i].arg].tenant_id = t
                  /\ stripe_customers[r.log[i].arg].email = r.email
                  /\ \A k \in DOMAIN customers_coll : customers_coll[k].id # r.log[i].arg

\* update_billing_email has ended on the failed update of the mapping: the
\* provider customer has the new email, the mapping has another one; and an
\* earlier bootstrap of the other tenant whose add failed has left a provider
\* customer that no mapping names.
C25_Witness ==
    LET r == proc[1]
    IN  /\ r.op = "update_billing_email"
        /\ FailedWrites(r, "update") # {}
        /\ stripe_customers[r.customer_id].email = r.new_email
        /\ r.customers[1].email # r.new_email
        /\ get_by_field(customers_coll, "tenant_id", r.session.tenant_id)[1].email
              = r.customers[1].email
        /\ \E c \in 1..Len(stripe_customers) :
              /\ stripe_customers[c].tenant_id \in add_failed
              /\ stripe_customers[c].tenant_id # r.session.tenant_id
              /\ \A k \in DOMAIN customers_coll : customers_coll[k].id # c

\* ------------------------------------------------------------------- C26
\* The provider customers that the mappings of a tenant name.
CustomersMappedTo(t) ==
    { customers_coll[k].id : k \in { k \in DOMAIN customers_coll : customers_coll[k].tenant_id = t } }

\* The subscriptions update_subscription has retrieved or modified.
TouchedSubscriptions(r) ==
    { r.log[i].arg : i \in { i \in CallsOf(r.log, SubscriptionStepCalls) : r.log[i].ok } }

FoundMapping(r) ==
    r.customers # << >> /\ CallsOf(r.log, {"add"}) = {}

BootstrapOps == { "ensure_customer", "get_active_subscription" }

\* C27: with a positive trial duration, the trial subscription is created
\* only inside the request that added the mapping, after that add.  A
\* request of ensure_customer or get_active_subscription that finds the
\* mapping issues no stripe.Subscription.create; when the mapped customer has
\* no subscription, get_active_subscription answers with no subscription and
\* ensure_customer with the mapped customer id, and the customer still has no
\* subscription: the state a failed bootstrap leaves is not repaired.
C27_NoTrialAfterFailedBootstrap ==
    \A p \in Procs :
        LET r == proc[p]
        IN  (r.op \in BootstrapOps /\ TrialEnabled) =>
              /\ \A i \in CallsOf(r.log, {"Subscription.create"}) :
                    \E j \in CallsOf(r.log, {"add"}) :
                       j < i /\ r.log[j].ok /\ r.log[j].arg = r.customer_id
              /\ FoundMapping(r) =>
                    /\ CallsOf(r.log, {"Subscription.create", "Customer.create", "Price.list"}) = {}
                    /\ (r.pc = "done" /\ SubsOfCustomer(r.customers[1].id) = {}) =>
                          /\ r.op = "get_active_subscription" =>
                                r.result.kind = "ok" /\ r.result.val = NoVal
                          /\ (r.op = "ensure_customer" /\ r.result.kind = "ok") =>
                                r.result.val.customer_id = r.customers[1].id

\* The provider has no paid product, so the bootstrap of the tenant ended
\* after its mapping was added; a later get_active_subscription has found the
\* mapping and answered with no subscription, and the customer has none.
C27_Witness ==
    LET r == proc[1]
    IN  /\ TrialEnabled
        /\ get_products(stripe_prices) = << >>
        /\ r.op = "get_active_subscription"
        /\ r.pc = "done"
        /\ FoundMapping(r)
        /\ r.result.val = NoVal
        /\ SubsOfCustomer(r.customers[1].id) = {}
        /\ CallsOf(r.log, {"Subscription.list"}) # {}

\* ------------------------------------------------------------------- C28
\* The request repeats a get_active_subscription that returned a subscription
\* with every cancellation successful, nothing having changed in between.
SecondCall(r) == r.op = "get_active_subscription" /\ r.previous.called

\* C28 as stated: the second of two get_active_subscription calls, the first
\* with every cancellation successful and no change at the provider in
\* between, issues no cancellation call, and returns the subscription id the
\* first call returned whenever exactly one subscription remained after the
\* first call.
C28_AsStated ==
    \A p \in Procs :
        LET r == proc[p]
        IN  SecondCall(r) =>
              /\ CancelCalls(r.log) = << >>
              /\ (r.pc = "done" /\ r.previous.remaining = 1) =>
                    /\ r.result.kind = "ok"
                    /\ r.result.val = r.previous.result.val

\* The first call listed one paid subscription and a full page of trials and
\* canceled those; the second call has found the trial beyond the page and
\* canceled it.
C28_Witness ==
    LET r == proc[1]
    IN  /\ SecondCall(r)
        /\ r.pc = "done"
        /\ r.previous.remaining = 1
        /\ Len(CancelCalls(r.log)) = 1
        /\ \A i \in 1..Len(r.log) : r.log[i].call = "Subscription.cancel" => r.log[i].ok
        /\ Len(stripe_subs) = SUBSCRIPTION_LIST_LIMIT + 2
        /\ r.result.val = r.previous.result.val

\* ------------------------------------------------------------------- C29
\* The scope the calls of the global customer collection carry.
CustomerStoreTenantId(session) == StoreTenantId(session, FALSE)

\* C29 as stated: every call of the secret store to the document store
\* carries a tenant scope that is not absent and equals the tenant id of the
\* session; no secrets operation runs with the absent scope of the global
\* customer collection.
C29_AsStated ==
    \A p \in Procs :
        LET r == proc[p]
        IN  \A i \in 1..Len(r.log) :
               "scope" \in DOMAIN r.log[i] =>
                  /\ r.log[i].scope # None
                  /\ r.log[i].scope = r.session.tenant_id
                  /\ r.log[i].scope # CustomerStoreTenantId(r.session)

\* A session without a tenant id has saved a secret: the write carried the
\* absent scope and the record lies outside every tenant.
C29_Witness ==
    \E p \in Procs :
        LET r == proc[p]
        IN  /\ r.op = "upsert_secret"
            /\ r.pc = "done"
            /\ r.result.kind = "ok"
            /\ r.session.tenant_id = None
            /\ r.log[Len(r.log)].call = "set_document"
            /\ r.log[Len(r.log)].scope = CustomerStoreTenantId(r.session)
            /\ r.config.name \in DOMAIN secrets_coll[None]
            /\ \A t \in Tenants : r.config.name \notin DOMAIN secrets_coll[t]

\* ------------------------------------------------------------------- C30
\* The records of a scope other than those under one name.
OtherRecords(coll, scope, name) ==
    [ n \in (DOMAIN coll[scope]) \ {name} |-> coll[scope][n] ]

\* What a step of request p under its tenant may change in the secret store.
SecretStepFrame(p) ==
    LET r == proc'[p]
        t == r.session.tenant_id
    IN  /\ \A s \in Scopes \ {t} : secrets_coll'[s] = secrets_coll[s]
        /\ r.op \notin { "upsert_secret", "delete_secret" } => secrets_coll' = secrets_coll
        /\ r.op = "upsert_secret" =>
              /\ OtherRecords(secrets_coll', t, r.config.name)
                    = OtherRecords(secrets_coll, t, r.config.name)
              /\ r.result.kind = "error" => secrets_coll' = secrets_coll
        /\ r.op = "delete_secret" =>
              /\ OtherRecords(secrets_coll', t, r.name) = OtherRecords(secrets_coll, t, r.name)
              /\ (proc[p].pc = "idle" /\ db_available) =>
                    /\ secrets_coll' = secrets_coll
                    /\ (r.name \notin DOMAIN secrets_coll[t]) <=>
                          (r.pc = "done" /\ r.result.kind = "error"
                             /\ r.result.err = "not_found")
              /\ r.result.kind = "error" => secrets_coll' = secrets_coll
              /\ proc[p].pc = "del_delete" =>
                    /\ r.pc = "done" /\ r.result.kind = "ok"
                    /\ r.name \notin DOMAIN secrets_coll'[t]

\* C30: a save or a delete under one tenant leaves the secrets of every
\* other scope as they were, also those of the same name; a delete of a name
\* that is absent under the tenant answers not_found and changes nothing; a
\* delete of a name that exists removes the record of that name and leaves
\* the tenant's other records alone.
C30_MutationsConfinedToTenant ==
    [][ \A p \in Procs :
           (proc'[p] # proc[p] /\ proc'[p].pc # "idle") => SecretStepFrame(p) ]_vars

\* Tenant tA has deleted a name that tenant tB holds too: tB's record of that
\* name is still there, and so is tA's record of the other name.
C30_Witness ==
    \E p \in Procs :
        LET r == proc[p]
        IN  /\ r.op = "delete_secret"
            /\ r.pc = "done"
            /\ r.result.kind = "ok"
            /\ r.session.tenant_id = "tA"
            /\ r.name \notin DOMAIN secrets_coll["tA"]
            /\ r.name \in DOMAIN secrets_coll["tB"]
            /\ secrets_coll["tB"][r.name] = SecretOf(last_saved["tB"][r.name])
            /\ DOMAIN secrets_coll["tA"] = Names \ {r.name}

====
